---- MODULE Spec2Model ----
(***************************************************************************)
(* Model of the ScamNest honeypot core: the in-memory session store        *)
(* (app/services/session_service.py), the session-level scam verdict       *)
(* (ScamDetector.analyze_session) and the callback gate and sender         *)
(* (app/services/callback_service.py).                                     *)
(*                                                                         *)
(* Scores are fixed-point: the float 1.0 is Pct(100); a float x with two   *)
(* decimals is Pct(100 * x).  Den makes the mean over up to MaxAnalysed    *)
(* messages exact.  Metadata and the updatedAt timestamp are not modelled. *)
(***************************************************************************)
EXTENDS Integers, Sequences, FiniteSets, TLC

\* ------------------------------------------------------------------ bounds
\* messages per session in the store specification
MaxMessages == 2
\* messages per session in the analysis specification
MaxAnalysed == 3
\* messages per session in the callback specification
MaxExchanged == 3

RECURSIVE Fact(_)
Fact(n) == IF n <= 1 THEN 1 ELSE n * Fact(n - 1)

Den == Fact(MaxAnalysed)
Pct(n) == n * Den

\* ------------------------------------------------------------- input sets
SessionIds == {"A", "B"}
Senders == {"scammer", "user"}

NoKeywords == {}

\* A message is its sender plus what ScamDetector.analyze_message returns
\* for its text (score, keywords); the text itself is not modelled.
Msg(sender, pct, kws) == [sender |-> sender, score |-> Pct(pct), keywords |-> kws]

StoreMessages == {Msg("scammer", 90, {"otp"})}

\* More distinct keywords than the diversity bonus counts.
ManyKeywords ==
    {"otp", "upi", "kyc", "pin", "cvv", "bank", "block", "urgent", "verify",
     "account", "card"}

\* Messages of the analysis specification: counterparty messages whose scores
\* sit on both sides of the 0.3 and 0.51 thresholds, with and without a
\* keyword, one with many keywords, one with the highest score, and a
\* high-scoring message of the "user" role.
AnalysisMessages ==
    {Msg("scammer", p, k) : p \in {0, 29, 49, 51, 90}, k \in {NoKeywords, {"otp"}}}
        \cup {Msg("scammer", 29, ManyKeywords), Msg("scammer", 100, {"otp"})}
        \cup {Msg("user", 90, {"otp", "upi"})}

EmptyIntelligence ==
    [bankAccounts |-> {}, upiIds |-> {}, phishingLinks |-> {},
     phoneNumbers |-> {}, suspiciousKeywords |-> {}]

IntelInputs ==
    {[bankAccounts |-> {}, upiIds |-> {"pay@upi"}, phishingLinks |-> {},
      phoneNumbers |-> {}, suspiciousKeywords |-> {}]}

\* (suspected, detected, confidence) arguments of update_scam_status
StatusInputs ==
    {<<TRUE, FALSE, Pct(50)>>, <<FALSE, TRUE, Pct(90)>>}

\* notes arguments of mark_callback_sent (store) and of send_callback (callback)
StoreNotes == {""}
NotesInputs == {"", "notes"}

\* ------------------------------------------------------------------ state
VARIABLES
    store,      \* _sessions: dict sessionId -> SessionState
    held,       \* SessionState objects a caller still references after they left _sessions
    error,      \* exception raised by the last session-service call ("" when it returned)
    req,        \* callback requests in flight
    posts,      \* payloads POSTed to the callback endpoint, in order
    verdict,    \* result of the last analyze_session call
    thr,        \* threads inside a session-service call: position and locals
    calc        \* the last evaluation of a pure function: inputs and result

vars == <<store, held, error, req, posts, verdict, thr, calc>>

\* --------------------------------------------------------- SessionState
NewSession(id) ==
    [sessionId |-> id,
     messages |-> <<>>,
     totalMessages |-> 0,
     scamSuspected |-> FALSE,
     scamDetected |-> FALSE,
     scamConfidenceScore |-> Pct(0),
     extractedIntelligence |-> EmptyIntelligence,
     callbackSent |-> FALSE,
     agentNotes |-> ""]

merge(a, b) ==
    [bankAccounts |-> a.bankAccounts \cup b.bankAccounts,
     upiIds |-> a.upiIds \cup b.upiIds,
     phishingLinks |-> a.phishingLinks \cup b.phishingLinks,
     phoneNumbers |-> a.phoneNumbers \cup b.phoneNumbers,
     suspiciousKeywords |-> a.suspiciousKeywords \cup b.suspiciousKeywords]

is_empty(i) ==
    /\ i.bankAccounts = {}
    /\ i.upiIds = {}
    /\ i.phishingLinks = {}
    /\ i.phoneNumbers = {}
    /\ i.suspiciousKeywords = {}

Max(a, b) == IF a >= b THEN a ELSE b
Min(a, b) == IF a <= b THEN a ELSE b

\* ------------------------------------------------------- session service
\* Each operation constrains store, held and error; the caller's own state
\* (client) is left to the step that makes the call.
client == <<req, posts, verdict, thr, calc>>

SessionNotFound(id) == "Session " \o id \o " not found"

PutAlone(s) == (s.sessionId :> s)

\* _sessions[session.sessionId] = session
Put(s) == [x \in DOMAIN store \cup {s.sessionId} |->
              IF x = s.sessionId THEN s ELSE store[x]]

\* The object that leaves _sessions may still be referenced by the caller
\* that obtained it ({} when nobody kept it).
Displaced(id) ==
    IF id \in DOMAIN store
    THEN {{}, {store[id]}}
    ELSE {{}}

get_session(id) == IF id \in DOMAIN store THEN {store[id]} ELSE {}

create_session(id) ==
    /\ store' = Put(NewSession(id))
    /\ \E d \in Displaced(id) : held' = IF d = {} THEN held ELSE d
    /\ error' = ""

get_or_create_session(id) ==
    /\ IF get_session(id) # {}
       THEN UNCHANGED store
       ELSE store' = Put(NewSession(id))
    /\ UNCHANGED held
    /\ error' = ""

\* update_session(session) with a session object that is no longer the one
\* stored under its id: it replaces whatever is stored there.
update_session(s) ==
    /\ store' = Put(s)
    /\ \E d \in Displaced(s.sessionId) : held' = d
    /\ error' = ""

\* update_session(session) with the object stored under its id, as every
\* mutation below calls it; only updatedAt changes besides the mutation.
Save(s) ==
    /\ store' = Put(s)
    /\ UNCHANGED held
    /\ error' = ""

update_session_stored(id) ==
    /\ id \in DOMAIN store
    /\ Save(store[id])

RaiseCreates(id) ==
    /\ store' = Put(NewSession(id))
    /\ UNCHANGED held
    /\ error' = ""

\* raise ValueError(f"Session {session_id} not found")
Raise(id) ==
    /\ error' = SessionNotFound(id)
    /\ UNCHANGED <<store, held>>

AppendMessageNoCount(s, m) ==
    [s EXCEPT !.messages = Append(@, m)]

AppendMessage(s, m) ==
    [s EXCEPT !.messages = Append(@, m), !.totalMessages = @ + 1]

add_message(id, m) ==
    IF get_session(id) = {}
    THEN Raise(id)
    ELSE Save(AppendMessage(store[id], m))

SetScamStatus(s, suspected, detected, confidence) ==
    [s EXCEPT !.scamSuspected = suspected \/ @,
              !.scamDetected = detected \/ @,
              !.scamConfidenceScore = Max(confidence, @)]

update_scam_status(id, suspected, detected, confidence) ==
    IF get_session(id) = {}
    THEN Raise(id)
    ELSE Save(SetScamStatus(store[id], suspected, detected, confidence))

MergeIntelligenceReplacing(s, intelligence) ==
    [s EXCEPT !.extractedIntelligence = intelligence]

MergeIntelligence(s, intelligence) ==
    [s EXCEPT !.extractedIntelligence = merge(@, intelligence)]

update_intelligence(id, intelligence) ==
    IF get_session(id) = {}
    THEN Raise(id)
    ELSE Save(MergeIntelligence(store[id], intelligence))

MarkSent(s, notes) ==
    [s EXCEPT !.callbackSent = TRUE,
              !.agentNotes = IF notes # "" THEN notes ELSE @]

mark_callback_sent(id, notes) ==
    IF get_session(id) = {}
    THEN Raise(id)
    ELSE Save(MarkSent(store[id], notes))

delete_session(id) ==
    /\ IF id \in DOMAIN store
       THEN /\ store' = [x \in DOMAIN store \ {id} |-> store[x]]
            /\ \E d \in Displaced(id) : held' = IF d = {} THEN held ELSE d
       ELSE UNCHANGED <<store, held>>
    /\ error' = ""

\* The session has room for one more message within the bound max.
CanGrow(id, max) ==
    IF id \in DOMAIN store THEN Len(store[id].messages) < max ELSE TRUE

\* ------------------------------------------------------------ store spec
Requests == {"r1", "r2"}

IdleReq ==
    [pc |-> "idle", sid |-> "", notes |-> "", gate |-> "none",
     resp |-> "", ok |-> FALSE, msg |-> ""]

NoVerdict ==
    [done |-> FALSE, sid |-> "", messages |-> <<>>, score |-> 0,
     suspected |-> FALSE, confirmed |-> FALSE, keywords |-> {}]

Threads == {"t1", "t2"}

IdleThread == [pc |-> "idle"]
NoCalc == [fn |-> "none"]

Init ==
    /\ store = <<>>
    /\ held = {}
    /\ error = ""
    /\ req = [r \in Requests |-> IdleReq]
    /\ posts = <<>>
    /\ verdict = NoVerdict
    /\ thr = [t \in Threads |-> IdleThread]
    /\ calc = NoCalc

CreateStep == \E id \in SessionIds : create_session(id)
GetOrCreateStep == \E id \in SessionIds : get_or_create_session(id)
UpdateSessionStep == \E s \in held : update_session(s)
UpdateStoredStep == \E id \in SessionIds : update_session_stored(id)
AddMessageStep ==
    \E id \in SessionIds, m \in StoreMessages :
        CanGrow(id, MaxMessages) /\ add_message(id, m)
UpdateScamStatusStep ==
    \E id \in SessionIds, a \in StatusInputs :
        update_scam_status(id, a[1], a[2], a[3])
UpdateIntelligenceStep ==
    \E id \in SessionIds, i \in IntelInputs : update_intelligence(id, i)
MarkCallbackSentStep ==
    \E id \in SessionIds, n \in StoreNotes : mark_callback_sent(id, n)
DeleteStep == \E id \in SessionIds : delete_session(id)

Next ==
    \/ CreateStep /\ UNCHANGED client
    \/ GetOrCreateStep /\ UNCHANGED client
    \/ UpdateSessionStep /\ UNCHANGED client
    \/ UpdateStoredStep /\ UNCHANGED client
    \/ AddMessageStep /\ UNCHANGED client
    \/ UpdateScamStatusStep /\ UNCHANGED client
    \/ UpdateIntelligenceStep /\ UNCHANGED client
    \/ MarkCallbackSentStep /\ UNCHANGED client
    \/ DeleteStep /\ UNCHANGED client

Spec == Init /\ [][Next]_vars

\* --------------------------------------------------------- scam detector
\* str.lower() on the sender values of the data model
Lower(sender) ==
    CASE sender = "SCAMMER" -> "scammer"
      [] sender = "USER" -> "user"
      [] OTHER -> sender

\* The loop of analyze_session: (total_score, all_keywords, message_count)
\* after the messages msgs[1..n].
RECURSIVE Accumulate(_, _)
Accumulate(msgs, n) ==
    IF n = 0
    THEN [total_score |-> 0, all_keywords |-> {}, message_count |-> 0]
    ELSE LET acc == Accumulate(msgs, n - 1)
             msg == msgs[n]
         IN  IF Lower(msg.sender) = "scammer"
             THEN [total_score |-> acc.total_score + msg.score,
                   all_keywords |-> acc.all_keywords \cup msg.keywords,
                   message_count |-> acc.message_count + 1]
             ELSE acc

\* total_score / message_count has no value when message_count is 0: the
\* ZeroDivisionError is shown as the score -1.
AvgScoreUnguarded(total_score, message_count) ==
    IF message_count = 0 THEN -1 ELSE total_score \div message_count

\* total_score / max(message_count, 1)
AvgScore(total_score, message_count) == total_score \div Max(message_count, 1)

DiversityBonusUncapped(all_keywords) == Cardinality(all_keywords) * Pct(2)

\* min(len(set(all_keywords)) * 0.02, 0.2)
DiversityBonus(all_keywords) == Min(Cardinality(all_keywords) * Pct(2), Pct(20))

FinalScore(avg_score, diversity_bonus) == Min(avg_score + diversity_bonus, Pct(100))

IsSuspected(final_score) == final_score >= Pct(30)

IsConfirmedNoGate(final_score, message_count) ==
    final_score >= Pct(51)

IsConfirmed(final_score, message_count) ==
    final_score >= Pct(51) /\ message_count >= 2

analyze_session(session) ==
    LET acc == Accumulate(session.messages, Len(session.messages))
        avg_score == AvgScore(acc.total_score, acc.message_count)
        final_score == FinalScore(avg_score, DiversityBonus(acc.all_keywords))
    IN  [score |-> final_score,
         suspected |-> IsSuspected(final_score),
         confirmed |-> IsConfirmed(final_score, acc.message_count),
         keywords |-> acc.all_keywords]

\* A caller runs analyze_session on the stored session and keeps the result.
AnalyzeSession(id) ==
    /\ id \in DOMAIN store
    /\ LET v == analyze_session(store[id])
       IN  verdict' = [done |-> TRUE, sid |-> id,
                       messages |-> store[id].messages,
                       score |-> v.score, suspected |-> v.suspected,
                       confirmed |-> v.confirmed, keywords |-> v.keywords]
    /\ UNCHANGED <<store, held, error, req, posts, thr, calc>>

\* The caller folds the verdict it holds into the session.
ApplyVerdict(id) ==
    /\ verdict.done
    /\ verdict.sid = id
    /\ update_scam_status(id, verdict.suspected, verdict.confirmed, verdict.score)
    /\ UNCHANGED client

AnalysisIds == {"A"}

NextAnalysis ==
    \/ \E id \in AnalysisIds : get_or_create_session(id) /\ UNCHANGED client
    \/ \E id \in AnalysisIds, m \in AnalysisMessages :
          /\ CanGrow(id, MaxAnalysed)
          /\ add_message(id, m)
          /\ UNCHANGED client
    \/ \E id \in AnalysisIds : AnalyzeSession(id)
    \/ \E id \in AnalysisIds : ApplyVerdict(id)

SpecAnalysis == Init /\ [][NextAnalysis]_vars

\* ------------------------------------------------------ callback service
min_messages_for_callback == 3

AlreadySent == "Callback already sent for this session"
NotConfirmed == "Cannot send callback - scam not confirmed"

\* Outcomes of the awaited client.post
Responses == {"200", "500", "timeout", "request_error", "exception"}

_build_payload_supplied_notes(session, agent_notes) ==
    [sessionId |-> session.sessionId,
     scamDetected |-> session.scamDetected,
     totalMessagesExchanged |-> session.totalMessages,
     extractedIntelligence |-> session.extractedIntelligence,
     agentNotes |-> agent_notes]

_build_payload(session, agent_notes) ==
    [sessionId |-> session.sessionId,
     scamDetected |-> session.scamDetected,
     totalMessagesExchanged |-> session.totalMessages,
     extractedIntelligence |-> session.extractedIntelligence,
     agentNotes |-> IF agent_notes # "" THEN agent_notes ELSE session.agentNotes]

should_send_callback_strict(session) ==
    IF session.callbackSent
    THEN FALSE
    ELSE IF ~session.scamDetected
    THEN FALSE
    ELSE IF session.totalMessages <= min_messages_for_callback
    THEN FALSE
    ELSE IF is_empty(session.extractedIntelligence)
            /\ session.scamConfidenceScore < Pct(80)
    THEN FALSE
    ELSE TRUE

should_send_callback(session) ==
    IF session.callbackSent
    THEN FALSE
    ELSE IF ~session.scamDetected
    THEN FALSE
    ELSE IF session.totalMessages < min_messages_for_callback
    THEN FALSE
    ELSE IF is_empty(session.extractedIntelligence)
            /\ session.scamConfidenceScore < Pct(80)
    THEN FALSE
    ELSE TRUE

RejectionSentOnly(session) ==
    IF session.callbackSent
    THEN AlreadySent
    ELSE ""

\* The two early returns of send_callback: the reason returned, "" when the
\* call goes on to build and post the payload.
Rejection(session) ==
    IF session.callbackSent
    THEN AlreadySent
    ELSE IF ~session.scamDetected
    THEN NotConfirmed
    ELSE ""

\* str(e) returned as it is: empty for an exception without a message.
ErrorMessageBare(resp, id) ==
    CASE resp = "500" -> "Callback failed with status 500"
      [] resp = "timeout" -> "Callback timeout for session " \o id
      [] resp = "request_error" -> "Callback request error"
      [] OTHER -> ""

\* The error message send_callback returns for a response other than 200.
ErrorMessage(resp, id) ==
    CASE resp = "500" -> "Callback failed with status 500"
      [] resp = "timeout" -> "Callback timeout for session " \o id
      [] resp = "request_error" -> "Callback request error"
      [] OTHER -> "Unexpected callback error"

\* A request evaluates the gate on the stored session.
CheckGate(r, id, notes) ==
    /\ req[r].pc = "idle"
    /\ id \in DOMAIN store
    /\ LET g == should_send_callback(store[id])
       IN  req' = [req EXCEPT ![r] =
                      [@ EXCEPT !.pc = IF g THEN "send" ELSE "done",
                                !.sid = id, !.notes = notes,
                                !.gate = IF g THEN "true" ELSE "false"]]
    /\ UNCHANGED <<store, held, error, posts, verdict, thr, calc>>

\* A caller invokes send_callback without consulting the gate.
CallSend(r, id, notes) ==
    /\ req[r].pc = "idle"
    /\ id \in DOMAIN store
    /\ req' = [req EXCEPT ![r] = [@ EXCEPT !.pc = "send", !.sid = id,
                                            !.notes = notes]]
    /\ UNCHANGED <<store, held, error, posts, verdict, thr, calc>>

\* send_callback up to its await: either an early return, or the payload is
\* built and the POST is issued.
send_callback(r) ==
    /\ req[r].pc = "send"
    /\ LET session == store[req[r].sid]
           reason == Rejection(session)
       IN  IF reason # ""
           THEN /\ req' = [req EXCEPT ![r] =
                              [@ EXCEPT !.pc = "returned", !.ok = FALSE,
                                        !.msg = reason]]
                /\ UNCHANGED posts
           ELSE /\ posts' = Append(posts, _build_payload(session, req[r].notes))
                /\ req' = [req EXCEPT ![r] = [@ EXCEPT !.pc = "awaiting"]]
    /\ UNCHANGED <<store, held, error, verdict, thr, calc>>

\* send_callback after the await: the response decides the returned tuple.
Respond(r, resp) ==
    /\ req[r].pc = "awaiting"
    /\ req' = [req EXCEPT ![r] =
                  [@ EXCEPT !.pc = "returned",
                            !.resp = resp,
                            !.ok = (resp = "200"),
                            !.msg = IF resp = "200" THEN ""
                                    ELSE ErrorMessage(resp, req[r].sid)]]
    /\ UNCHANGED <<store, held, error, posts, verdict, thr, calc>>

\* The caller marks the session once send_callback reported success.
Finish(r) ==
    /\ req[r].pc = "returned"
    /\ req' = [req EXCEPT ![r] = [@ EXCEPT !.pc = "done"]]
    /\ IF req[r].ok
       THEN mark_callback_sent(req[r].sid, req[r].notes)
       ELSE UNCHANGED <<store, held, error>>
    /\ UNCHANGED <<posts, verdict, thr, calc>>

CallbackIds == {"A"}
CallbackMessage == Msg("scammer", 90, {"otp"})

\* The sessions a callback request can meet: every combination of message
\* count, flags, score and intelligence the store operations produce.
CallbackSessions ==
    {[NewSession(id) EXCEPT
        !.messages = [k \in 1..n |-> CallbackMessage],
        !.totalMessages = n,
        !.scamSuspected = f[1],
        !.scamDetected = f[2],
        !.scamConfidenceScore = c,
        !.extractedIntelligence = i,
        !.agentNotes = a,
        !.callbackSent = f[3]] :
      id \in CallbackIds, n \in 0..MaxExchanged, a \in {"", "stored notes"},
      f \in BOOLEAN \X BOOLEAN \X BOOLEAN,
      c \in {Pct(0), Pct(79), Pct(80)},
      i \in {EmptyIntelligence} \cup IntelInputs}

InitCallback ==
    /\ \E s \in CallbackSessions : store = (s.sessionId :> s)
    /\ held = {}
    /\ error = ""
    /\ req = [r \in Requests |-> IdleReq]
    /\ posts = <<>>
    /\ verdict = NoVerdict
    /\ thr = [t \in Threads |-> IdleThread]
    /\ calc = NoCalc

NextCallback ==
    \/ \E r \in Requests, id \in CallbackIds, n \in NotesInputs : CheckGate(r, id, n)
    \/ \E r \in Requests, id \in CallbackIds, n \in NotesInputs : CallSend(r, id, n)
    \/ \E r \in Requests : send_callback(r)
    \/ \E r \in Requests, resp \in Responses : Respond(r, resp)
    \/ \E r \in Requests : Finish(r)

SpecCallback == InitCallback /\ [][NextCallback]_vars

\* ----------------------------------------------------------------- claims
Score(id) == store[id].scamConfidenceScore

\* The update operations of the session service.
UpdateOps ==
    \/ UpdateScamStatusStep
    \/ AddMessageStep
    \/ UpdateIntelligenceStep
    \/ MarkCallbackSentStep
    \/ UpdateSessionStep
    \/ UpdateStoredStep

\* The operations other than delete_session and update_session.
KeepingOps ==
    \/ CreateStep
    \/ GetOrCreateStep
    \/ AddMessageStep
    \/ UpdateScamStatusStep
    \/ UpdateIntelligenceStep
    \/ MarkCallbackSentStep

\* C1: across every update operation (update_scam_status, add_message,
\* update_intelligence, mark_callback_sent, update_session) the stored
\* scamConfidenceScore of a session identifier is at least what it was.
\* (Steps that are also create_session steps are left aside, so that the step
\* found is an update operation and nothing else.)
C1_ScoreNeverDecreases ==
    [][(UpdateOps /\ ~CreateStep) =>
          \A id \in DOMAIN store \cap DOMAIN store' : Score(id)' >= Score(id)]_vars

\* C2: once scamSuspected or scamDetected is true for an identifier it is
\* still true after every operation other than delete_session.
C2_FlagsStayTrue ==
    [][KeepingOps =>
          \A id \in DOMAIN store :
              /\ store[id].scamSuspected =>
                    id \in DOMAIN store' /\ store'[id].scamSuspected
              /\ store[id].scamDetected =>
                    id \in DOMAIN store' /\ store'[id].scamDetected]_vars

\* C3: in every reachable state every stored session with scamDetected also
\* has scamSuspected.
C3_DetectedImpliesSuspected ==
    \A id \in DOMAIN store : store[id].scamDetected => store[id].scamSuspected

\* C4: callbackSent is a latch: once true for an identifier it is true after
\* every operation other than delete_session.
C4_CallbackSentLatch ==
    [][KeepingOps =>
          \A id \in DOMAIN store :
              store[id].callbackSent =>
                  id \in DOMAIN store' /\ store'[id].callbackSent]_vars

\* C5: every session object, stored or still referenced by a caller, has
\* totalMessages equal to the number of entries in messages.
C5_TotalMessagesIsLength ==
    \A s \in {store[id] : id \in DOMAIN store} \cup held :
        s.totalMessages = Len(s.messages)

C5_Witness ==
    \E id \in DOMAIN store : Len(store[id].messages) >= 2

ScammerCount(msgs) ==
    Cardinality({k \in DOMAIN msgs : msgs[k].sender = "scammer"})

\* C6: analyze_session reports suspected exactly when the session score is
\* >= 0.3, and confirmed exactly when the score is >= 0.51 and at least two
\* messages of the "scammer" role are in the session.
C6_VerdictThresholds ==
    verdict.done =>
        /\ verdict.suspected <=> verdict.score >= Pct(30)
        /\ verdict.confirmed <=>
              (verdict.score >= Pct(51) /\ ScammerCount(verdict.messages) >= 2)

\* One scammer message scoring 0.9 next to user messages: suspected only.
C6_Witness ==
    /\ verdict.done
    /\ ScammerCount(verdict.messages) = 1
    /\ Len(verdict.messages) >= 2
    /\ verdict.score >= Pct(90)
    /\ verdict.suspected
    /\ ~verdict.confirmed

Eligible(session) ==
    /\ ~session.callbackSent
    /\ session.scamDetected
    /\ session.totalMessages >= min_messages_for_callback
    /\ \/ session.extractedIntelligence # EmptyIntelligence
       \/ session.scamConfidenceScore >= Pct(80)

\* C7: should_send_callback returns true exactly when the callback was not
\* sent, the scam is detected, at least min_messages_for_callback messages
\* were exchanged, and the intelligence is non-empty or the score is >= 0.8.
C7_GateDecision ==
    [][\A r \in Requests :
          (req[r].pc = "idle" /\ req'[r].gate # "none") =>
              ((req'[r].gate = "true") <=> Eligible(store[req'[r].sid]))]_vars

\* The gate refused a detected, unsent, high-score session for lack of messages.
C7_Witness ==
    \E r \in Requests :
        /\ req[r].gate = "false"
        /\ store[req[r].sid].scamDetected
        /\ ~store[req[r].sid].callbackSent
        /\ store[req[r].sid].scamConfidenceScore >= Pct(80)
        /\ store[req[r].sid].totalMessages < min_messages_for_callback

\* C8: send_callback on a session with callbackSent true or scamDetected
\* false returns (False, reason) with the reason of that cause, and posts
\* nothing.
C8_RejectedWithoutPost ==
    [][\A r \in Requests :
          LET session == store[req[r].sid]
          IN  (/\ req[r].pc = "send"
               /\ req'[r].pc # "send"
               /\ (session.callbackSent \/ ~session.scamDetected)) =>
                  /\ posts' = posts
                  /\ req'[r].pc = "returned"
                  /\ ~req'[r].ok
                  /\ req'[r].msg # ""
                  /\ req'[r].msg \in {AlreadySent, NotConfirmed}
                  /\ req'[r].msg = AlreadySent => session.callbackSent
                  /\ req'[r].msg = NotConfirmed => ~session.scamDetected]_vars

C8_Witness ==
    \E r \in Requests :
        /\ req[r].pc = "returned"
        /\ req[r].msg = NotConfirmed
        /\ posts = <<>>

\* A mutation operation is called with identifier id.
MutationOn(id) ==
    \/ \E m \in StoreMessages : add_message(id, m)
    \/ \E a \in StatusInputs : update_scam_status(id, a[1], a[2], a[3])
    \/ \E i \in IntelInputs : update_intelligence(id, i)
    \/ \E n \in StoreNotes : mark_callback_sent(id, n)

UnknownIdFails ==
    \A id \in SessionIds :
        (id \notin DOMAIN store /\ MutationOn(id)) =>
            error' = SessionNotFound(id) /\ store' = store

PostsFor(id) == {k \in DOMAIN posts : posts[k].sessionId = id}

\* C10: when every request goes through should_send_callback, send_callback
\* and mark_callback_sent, at most one POST is issued per session.
C10_AtMostOnePost ==
    (\A r \in Requests : req[r].pc = "idle" \/ req[r].gate # "none") =>
        \A id \in CallbackIds : Cardinality(PostsFor(id)) <= 1

\* ------------------------------------------- concurrent calls on one session
\* Two threads are inside SessionService calls on the same session.  Every
\* call starts with get_session, which hands out the object held in _sessions,
\* so both threads work on the same SessionState; the statements of a call
\* run in order, and the other thread may run between an attribute read and
\* the assignment that follows it.
RaceId == "A"

RacePriors ==
    { [NewSession(RaceId) EXCEPT !.scamSuspected = f[1],
                                 !.scamDetected = f[2],
                                 !.scamConfidenceScore = f[3]] :
        f \in {<<FALSE, FALSE, Pct(0)>>, <<TRUE, FALSE, Pct(50)>>} }

RaceStatusInputs == StatusInputs \cup {<<FALSE, FALSE, Pct(0)>>}

RaceMessages == [t \in Threads |-> Msg("scammer", 90, {t})]

StatusCall(t, prior, a) ==
    [pc |-> "called", op |-> "update_scam_status", entry |-> prior,
     suspected |-> a[1], detected |-> a[2], confidence |-> a[3],
     message |-> RaceMessages[t], val |-> 0]

MessageCall(t, prior) ==
    [pc |-> "called", op |-> "add_message", entry |-> prior,
     suspected |-> FALSE, detected |-> FALSE, confidence |-> Pct(0),
     message |-> RaceMessages[t], val |-> 0]

RaceCalls(t, prior) ==
    {StatusCall(t, prior, a) : a \in RaceStatusInputs} \cup {MessageCall(t, prior)}

InitRace ==
    /\ \E prior \in RacePriors :
          /\ store = (RaceId :> prior)
          /\ thr \in [Threads -> UNION {RaceCalls(t, prior) : t \in Threads}]
          /\ \A t \in Threads : thr[t] \in RaceCalls(t, prior)
    /\ held = {}
    /\ error = ""
    /\ req = [r \in Requests |-> IdleReq]
    /\ posts = <<>>
    /\ verdict = NoVerdict
    /\ calc = NoCalc

Goto(t, pc) == thr' = [thr EXCEPT ![t] = [@ EXCEPT !.pc = pc]]
GotoWith(t, pc, v) == thr' = [thr EXCEPT ![t] = [@ EXCEPT !.pc = pc, !.val = v]]
Assign(s) == store' = [store EXCEPT ![RaceId] = s]
RaceFrame == UNCHANGED <<held, req, posts, verdict, calc>>

\* session = self.get_session(session_id); raise ValueError when it is None
ThreadGetSession(t) ==
    /\ thr[t].pc = "called"
    /\ IF get_session(RaceId) = {}
       THEN Goto(t, "done") /\ error' = SessionNotFound(RaceId)
       ELSE /\ Goto(t, IF thr[t].op = "add_message" THEN "append" ELSE "suspected")
            /\ UNCHANGED error
    /\ UNCHANGED store
    /\ RaceFrame

\* suspected or session.scamSuspected
ReadSuspected(t) ==
    /\ thr[t].pc = "suspected"
    /\ GotoWith(t, "set_suspected", thr[t].suspected \/ store[RaceId].scamSuspected)
    /\ UNCHANGED <<store, error>>
    /\ RaceFrame

\* session.scamSuspected = ...
WriteSuspected(t) ==
    /\ thr[t].pc = "set_suspected"
    /\ Assign([store[RaceId] EXCEPT !.scamSuspected = thr[t].val])
    /\ Goto(t, "detected")
    /\ UNCHANGED error
    /\ RaceFrame

\* detected or session.scamDetected
ReadDetected(t) ==
    /\ thr[t].pc = "detected"
    /\ GotoWith(t, "set_detected", thr[t].detected \/ store[RaceId].scamDetected)
    /\ UNCHANGED <<store, error>>
    /\ RaceFrame

\* session.scamDetected = ...
WriteDetected(t) ==
    /\ thr[t].pc = "set_detected"
    /\ Assign([store[RaceId] EXCEPT !.scamDetected = thr[t].val])
    /\ Goto(t, "score")
    /\ UNCHANGED error
    /\ RaceFrame

\* max(confidence, session.scamConfidenceScore)
ReadScore(t) ==
    /\ thr[t].pc = "score"
    /\ GotoWith(t, "set_score", Max(thr[t].confidence, store[RaceId].scamConfidenceScore))
    /\ UNCHANGED <<store, error>>
    /\ RaceFrame

\* session.scamConfidenceScore = ...
WriteScore(t) ==
    /\ thr[t].pc = "set_score"
    /\ Assign([store[RaceId] EXCEPT !.scamConfidenceScore = thr[t].val])
    /\ Goto(t, "update_session")
    /\ UNCHANGED error
    /\ RaceFrame

\* session.messages.append(message): one call on the shared list
ThreadAppend(t) ==
    /\ thr[t].pc = "append"
    /\ Assign([store[RaceId] EXCEPT !.messages = Append(@, thr[t].message)])
    /\ Goto(t, "count")
    /\ UNCHANGED error
    /\ RaceFrame

\* session.totalMessages += 1 reads the attribute ...
ReadCount(t) ==
    /\ thr[t].pc = "count"
    /\ GotoWith(t, "set_count", store[RaceId].totalMessages + 1)
    /\ UNCHANGED <<store, error>>
    /\ RaceFrame

\* ... and then assigns it
WriteCount(t) ==
    /\ thr[t].pc = "set_count"
    /\ Assign([store[RaceId] EXCEPT !.totalMessages = thr[t].val])
    /\ Goto(t, "update_session")
    /\ UNCHANGED error
    /\ RaceFrame

\* return self.update_session(session): the shared object is stored again
ThreadUpdateSession(t) ==
    /\ thr[t].pc = "update_session"
    /\ store' = Put(store[RaceId])
    /\ Goto(t, "done")
    /\ error' = ""
    /\ RaceFrame

NextRace ==
    \/ \E t \in Threads : ThreadGetSession(t)
    \/ \E t \in Threads : ReadSuspected(t)
    \/ \E t \in Threads : WriteSuspected(t)
    \/ \E t \in Threads : ReadDetected(t)
    \/ \E t \in Threads : WriteDetected(t)
    \/ \E t \in Threads : ReadScore(t)
    \/ \E t \in Threads : WriteScore(t)
    \/ \E t \in Threads : ThreadAppend(t)
    \/ \E t \in Threads : ReadCount(t)
    \/ \E t \in Threads : WriteCount(t)
    \/ \E t \in Threads : ThreadUpdateSession(t)

SpecRace == InitRace /\ [][NextRace]_vars

BothReturned(op) ==
    \A t \in Threads : thr[t].pc = "done" /\ thr[t].op = op

\* C11: after two concurrent update_scam_status calls on one session, in every
\* interleaving of their reads and writes, the stored score is the maximum of
\* the prior score and both confidences, and a flag either call set (or that
\* was set before) is still set.
C11_ConcurrentStatusKeepsMax ==
    BothReturned("update_scam_status") =>
        LET s == store[RaceId]
            p == thr["t1"].entry
            a == thr["t1"]
            b == thr["t2"]
        IN /\ s.scamConfidenceScore =
                  Max(p.scamConfidenceScore, Max(a.confidence, b.confidence))
           /\ s.scamSuspected = (p.scamSuspected \/ a.suspected \/ b.suspected)
           /\ s.scamDetected = (p.scamDetected \/ a.detected \/ b.detected)

\* C12: after two concurrent add_message calls on one existing session, in
\* every interleaving, both messages are in messages, totalMessages has grown
\* by exactly 2 and equals the length of messages.
C12_ConcurrentAddsCounted ==
    BothReturned("add_message") =>
        LET s == store[RaceId]
            p == thr["t1"].entry
        IN /\ \A t \in Threads :
                  \E i \in 1..Len(s.messages) : s.messages[i] = thr[t].message
           /\ s.totalMessages = p.totalMessages + 2
           /\ s.totalMessages = Len(s.messages)

\* ------------------------------------------------------------- independence
\* One session-service operation applied to the identifier id.
OperationOn(id) ==
    \/ create_session(id)
    \/ \E m \in StoreMessages : add_message(id, m)
    \/ \E a \in StatusInputs : update_scam_status(id, a[1], a[2], a[3])
    \/ \E i \in IntelInputs : update_intelligence(id, i)
    \/ \E n \in StoreNotes : mark_callback_sent(id, n)
    \/ delete_session(id)

Untouched(id) ==
    IF id \in DOMAIN store
    THEN id \in DOMAIN store' /\ store'[id] = store[id]
    ELSE id \notin DOMAIN store'

\* C13: an operation applied to identifier A (create_session, add_message,
\* update_scam_status, update_intelligence, mark_callback_sent,
\* delete_session) leaves what is stored under every other identifier B as it
\* was, and neither adds nor removes B.
C13_OtherSessionsUntouched ==
    [][\A a \in SessionIds : \A b \in SessionIds \ {a} :
          Untouched(b) \/ ~OperationOn(a)]_vars

\* Both sessions are stored and have been changed in different ways.
C13_Witness ==
    /\ DOMAIN store = SessionIds
    /\ store["A"].totalMessages = 2
    /\ store["A"].callbackSent
    /\ store["B"].totalMessages = 1
    /\ store["B"].scamDetected
    /\ ~store["B"].callbackSent
    /\ ~store["A"].scamDetected

\* ------------------------------------------------- intelligence extractor
\* Text is a sequence of one-character strings.
DigitChars == <<"0", "1", "2", "3", "4", "5", "6", "7", "8", "9">>
Digits == {DigitChars[k] : k \in 1..Len(DigitChars)}
Whitespace == {" ", "\t"}

\* Longest run of digits among the candidates tried.
MaxCandidateDigits == 19

\* n digits, the k-th being (k + shift) mod 10
Plain(n, shift) == [k \in 1..n |-> DigitChars[((k + shift) % 10) + 1]]

\* n digits in groups of four with sep between the groups
Grouped(n, sep) ==
    [k \in 1..(n + ((n - 1) \div 4)) |->
        IF k % 5 = 0 THEN sep ELSE DigitChars[((k - (k \div 5)) % 10) + 1]]

\* What the bank-account patterns can hand to the filter, and strings they
\* would not: too short, too long, or with another character inside.
Candidates ==
    {Plain(n, shift) : n \in 8..MaxCandidateDigits, shift \in {0, 3}}
      \cup {Grouped(n, sep) : n \in {8, 12, 16, 20}, sep \in {"-", " ", "\t", "."}}
      \cup {Plain(8, 0) \o <<"a">> \o Plain(4, 5)}

MatchLists == {<<>>} \cup {<<a>> : a \in Candidates}
                 \cup {<<a, b>> : a \in Candidates, b \in {Plain(12, 0), Grouped(12, "-")}}

\* re.sub(r'[-\s]', '', match)
Clean(match) == SelectSeq(match, LAMBDA ch : ch # "-" /\ ch \notin Whitespace)

\* str.isdigit()
isdigit(str) == Len(str) > 0 /\ \A k \in 1..Len(str) : str[k] \in Digits

MaskedKeepingFive(clean) ==
    <<"X", "X", "X", "X", "-", "X", "X", "X", "-">>
        \o SubSeq(clean, Max(Len(clean) - 4, 1), Len(clean))

\* f"XXXX-XXXX-{clean[-4:]}"
Masked(clean) ==
    <<"X", "X", "X", "X", "-", "X", "X", "X", "X", "-">>
        \o SubSeq(clean, Max(Len(clean) - 3, 1), Len(clean))

InList(x, list) == \E k \in 1..Len(list) : list[k] = x

RECURSIVE FilterMatches(_, _, _)
FilterMatches(matches, k, valid_accounts) ==
    IF k > Len(matches) THEN valid_accounts
    ELSE LET clean == Clean(matches[k])
             masked == Masked(clean)
         IN IF 9 <= Len(clean) /\ Len(clean) <= 18 /\ isdigit(clean)
               /\ ~InList(masked, valid_accounts)
            THEN FilterMatches(matches, k + 1, Append(valid_accounts, masked))
            ELSE FilterMatches(matches, k + 1, valid_accounts)

_filter_bank_accounts(matches) == FilterMatches(matches, 1, <<>>)

InitBank ==
    /\ store = <<>>
    /\ held = {}
    /\ error = ""
    /\ req = [r \in Requests |-> IdleReq]
    /\ posts = <<>>
    /\ verdict = NoVerdict
    /\ thr = [t \in Threads |-> IdleThread]
    /\ \E ms \in MatchLists : calc = [fn |-> "bank_matches", matches |-> ms]

FilterBankAccounts ==
    /\ calc.fn = "bank_matches"
    /\ calc' = [fn |-> "_filter_bank_accounts", matches |-> calc.matches,
                result |-> _filter_bank_accounts(calc.matches)]
    /\ UNCHANGED <<store, held, error, req, posts, verdict, thr>>

NextBank == FilterBankAccounts

SpecBank == InitBank /\ [][NextBank]_vars

\* The candidate without its '-' and whitespace characters.
Stripped(candidate) ==
    LET keep == {k \in 1..Len(candidate) :
                    candidate[k] # "-" /\ candidate[k] \notin Whitespace}
        pos[n \in 0..Len(candidate)] ==
            IF n = 0 THEN <<>>
            ELSE IF n \in keep THEN Append(pos[n - 1], candidate[n]) ELSE pos[n - 1]
    IN pos[Len(candidate)]

MaskOf(account, candidate) ==
    LET d == Stripped(candidate)
    IN /\ Len(d) >= 9
       /\ Len(d) <= 18
       /\ \A k \in 1..Len(d) : d[k] \in Digits
       /\ \A k \in 1..4 : account[10 + k] = d[Len(d) - 4 + k]

\* C15: every string _filter_bank_accounts returns reads XXXX-XXXX-dddd; it
\* comes from a candidate that without '-' and whitespace is 9 to 18 digits,
\* dddd are the last four digits of that candidate, and the ten characters
\* before them are the fixed mask, so no other digit of the candidate is kept.
C15_BankAccountsMasked ==
    calc.fn = "_filter_bank_accounts" =>
        \A k \in 1..Len(calc.result) :
            LET account == calc.result[k]
            IN /\ Len(account) = 14
               /\ \A j \in {1, 2, 3, 4, 6, 7, 8, 9} : account[j] = "X"
               /\ account[5] = "-" /\ account[10] = "-"
               /\ \E c \in 1..Len(calc.matches) : MaskOf(account, calc.matches[c])

\* An 18-digit candidate written with separators was masked, next to one
\* that was accepted as well.
C15_Witness ==
    /\ calc.fn = "_filter_bank_accounts"
    /\ Len(calc.matches) = 2
    /\ calc.matches[1] = Plain(18, 3)
    /\ calc.matches[2] = Grouped(12, "-")
    /\ calc.result = <<Masked(Plain(18, 3)), Masked(Plain(12, 0))>>

\* A message text is given by what the extractor's patterns find in it: the
\* raw bank-account matches, and the UPI ids, phone numbers, links and
\* keywords that pass their filters.
Text(bank_matches, upi, phone, link, kws) ==
    [bank_matches |-> bank_matches, upiIds |-> upi, phoneNumbers |-> phone,
     phishingLinks |-> link, suspiciousKeywords |-> kws]

TextMessage(sender, text) == [sender |-> sender, text |-> text]

Range(seq) == {seq[k] : k \in 1..Len(seq)}

extract_from_message(message) ==
    [bankAccounts |-> Range(_filter_bank_accounts(message.text.bank_matches)),
     upiIds |-> message.text.upiIds,
     phishingLinks |-> message.text.phishingLinks,
     phoneNumbers |-> message.text.phoneNumbers,
     suspiciousKeywords |-> message.text.suspiciousKeywords]

RECURSIVE Combine(_, _, _)
Combine(messages, k, combined) ==
    IF k > Len(messages) THEN combined
    ELSE IF Lower(messages[k].sender) = "scammer"
         THEN Combine(messages, k + 1, merge(combined, extract_from_message(messages[k])))
         ELSE Combine(messages, k + 1, combined)

extract_from_session_everyone(session) ==
    LET all == [k \in 1..Len(session.messages) |->
                   [session.messages[k] EXCEPT !.sender = "scammer"]]
    IN Combine(all, 1, EmptyIntelligence)

extract_from_session(session) == Combine(session.messages, 1, EmptyIntelligence)

\* Number of update_intelligence calls and of extract_from_session runs followed.
MaxMerges == 3
MaxRuns == 2

IntelMessages ==
    {TextMessage("scammer", Text(<<Plain(12, 0)>>, {"pay@upi"}, {}, {}, {"otp"})),
     TextMessage("SCAMMER", Text(<<Grouped(12, "-"), Plain(8, 0)>>, {"a@ybl"}, {"+919876543210"}, {}, {"otp", "kyc"})),
     TextMessage("user", Text(<<Plain(10, 3)>>, {"me@upi"}, {}, {"http://bank.example"}, {"help"}))}

IntelArgs ==
    {[EmptyIntelligence EXCEPT !.upiIds = {"pay@upi"}, !.suspiciousKeywords = {"otp"}],
     [EmptyIntelligence EXCEPT !.upiIds = {"a@ybl"}, !.bankAccounts = {Masked(Plain(12, 0))}],
     [EmptyIntelligence EXCEPT !.phishingLinks = {"http://pay.example"}, !.suspiciousKeywords = {"otp", "kyc"}]}

IntelId == "A"

InitIntel ==
    /\ \E base \in {EmptyIntelligence} \cup IntelInputs :
       \E ms \in UNION {[1..n -> IntelMessages] : n \in 0..2} :
          /\ store = (IntelId :> [NewSession(IntelId) EXCEPT
                                     !.messages = ms,
                                     !.totalMessages = Len(ms),
                                     !.extractedIntelligence = base])
          /\ calc = [fn |-> "intelligence", base |-> base, log |-> <<>>, runs |-> <<>>]
    /\ held = {}
    /\ error = ""
    /\ req = [r \in Requests |-> IdleReq]
    /\ posts = <<>>
    /\ verdict = NoVerdict
    /\ thr = [t \in Threads |-> IdleThread]

IntelFrame == UNCHANGED <<req, posts, verdict, thr>>

\* update_intelligence with an ExtractedIntelligence
UpdateWith ==
    /\ Len(calc.log) < MaxMerges
    /\ \E i \in IntelArgs :
          /\ update_intelligence(IntelId, i)
          /\ calc' = [calc EXCEPT !.log = Append(@, i)]
    /\ IntelFrame

\* update_intelligence with what extract_from_session finds in the session
UpdateWithExtracted ==
    /\ Len(calc.log) < MaxMerges
    /\ LET i == extract_from_session(store[IntelId])
       IN /\ update_intelligence(IntelId, i)
          /\ calc' = [calc EXCEPT !.log = Append(@, i)]
    /\ IntelFrame

ExtractFromSession ==
    /\ Len(calc.runs) < MaxRuns
    /\ calc' = [calc EXCEPT !.runs = Append(@, extract_from_session(store[IntelId]))]
    /\ UNCHANGED <<store, held, error>>
    /\ IntelFrame

NextIntel ==
    \/ UpdateWith
    \/ UpdateWithExtracted
    \/ ExtractFromSession

SpecIntel == InitIntel /\ [][NextIntel]_vars

IntelFields ==
    {"bankAccounts", "upiIds", "phishingLinks", "phoneNumbers", "suspiciousKeywords"}

\* What the scammer messages of a list contain, field by field.
FoundIn(messages, field) ==
    UNION {extract_from_message(messages[k])[field] :
              k \in {j \in 1..Len(messages) : messages[j].sender \in {"scammer", "SCAMMER"}}}

\* C14: the intelligence stored after any sequence of update_intelligence
\* calls is, field by field, the union of what was stored before and of the
\* arguments, so it depends neither on how often an argument was merged nor
\* on the order of the calls; and every run of extract_from_session on the
\* session returns the same intelligence, that of its scammer messages.
C14_MergeIdempotentAnyOrder ==
    calc.fn = "intelligence" =>
        /\ \A f \in IntelFields :
              store[IntelId].extractedIntelligence[f] =
                  calc.base[f] \cup UNION {calc.log[k][f] : k \in 1..Len(calc.log)}
        /\ \A k \in 1..Len(calc.runs) :
              \A f \in IntelFields :
                  calc.runs[k][f] = FoundIn(store[IntelId].messages, f)

\* The same intelligence was merged twice with another one in between, and
\* the session, holding a scammer and a user message, was extracted twice.
C14_Witness ==
    /\ calc.fn = "intelligence"
    /\ Len(calc.log) = 3
    /\ calc.log[1] = calc.log[3]
    /\ calc.log[1] # calc.log[2]
    /\ calc.log[2].bankAccounts # {}
    /\ Len(calc.runs) = 2
    /\ Len(store[IntelId].messages) = 2
    /\ store[IntelId].messages[1].sender = "user"
    /\ store[IntelId].messages[2].sender = "SCAMMER"

\* -------------------------------------------- ScamDetector.analyze_message
Families ==
    <<"urgency", "threat", "request", "sensitive", "impersonation", "money",
      "upi_scam", "financial_coercion">>

per_match_weight ==
    [urgency |-> Pct(5), threat |-> Pct(8), request |-> Pct(5),
     sensitive |-> Pct(8), impersonation |-> Pct(5), money |-> Pct(5),
     upi_scam |-> Pct(10), financial_coercion |-> Pct(10)]

family_cap ==
    [urgency |-> Pct(15), threat |-> Pct(25), request |-> Pct(15),
     sensitive |-> Pct(25), impersonation |-> Pct(10), money |-> Pct(10),
     upi_scam |-> Pct(20), financial_coercion |-> Pct(20)]

\* Numbers of patterns of a family found in a text: none, some, and enough
\* to pass the cap of every family.
CountInputs == {0, 2, 4}
NoMatches == [f \in Range(Families) |-> 0]

\* What joblib.load does when ScamDetector is constructed.
LoadOutcomes == {"loaded", "model_file_missing", "vectorizer_file_missing"}

\* What the loaded classifier does with a text: the probability of the scam
\* class, or an exception in vectorizer.transform or model.predict_proba.
Classifiers ==
    {[fails |-> "", prob |-> Pct(p)] : p \in {0, 30, 100}}
      \cup {[fails |-> w, prob |-> Pct(0)] : w \in {"transform", "predict_proba"}}

FamilyScoreUncapped(count, f) ==
    IF count > 0 THEN count * per_match_weight[f] ELSE 0

\* if count > 0: rule_score += min(count * weight, cap)
FamilyScore(count, f) ==
    IF count > 0 THEN Min(count * per_match_weight[f], family_cap[f]) ELSE 0

RECURSIVE RuleScore(_, _)
RuleScore(counts, k) ==
    IF k = 0 THEN 0
    ELSE RuleScore(counts, k - 1) + FamilyScore(counts[Families[k]], Families[k])

\* ml_score = 0.0; try: ... ml_score = probs[0]; except Exception: pass
MlScore(classifier) == IF classifier.fails = "" THEN classifier.prob ELSE Pct(0)

analyze_message(counts, classifier) ==
    LET rule_score == RuleScore(counts, Len(Families))
        ml_score == MlScore(classifier)
        final_score == Max(rule_score, ml_score)
    IN [rule_score |-> rule_score, ml_score |-> ml_score,
        score |-> Min(final_score, Pct(100))]

InitDetector ==
    /\ store = <<>>
    /\ held = {}
    /\ error = ""
    /\ req = [r \in Requests |-> IdleReq]
    /\ posts = <<>>
    /\ verdict = NoVerdict
    /\ thr = [t \in Threads |-> IdleThread]
    /\ \E l \in LoadOutcomes, c \in Classifiers, n \in [Range(Families) -> CountInputs] :
          /\ l # "loaded" => n = NoMatches
          /\ calc = [fn |-> "ScamDetector", load |-> l, classifier |-> c, counts |-> n]

DetectorFrame == UNCHANGED <<store, held, req, posts, verdict, thr>>

\* ScamDetector(): __init__ loads the model and the vectorizer
Construct ==
    /\ calc.fn = "ScamDetector"
    /\ IF calc.load = "loaded"
       THEN /\ calc' = [calc EXCEPT !.fn = "constructed"]
            /\ error' = ""
       ELSE /\ calc' = [calc EXCEPT !.fn = "raised"]
            /\ error' = calc.load
    /\ DetectorFrame

AnalyzeMessage ==
    /\ calc.fn = "constructed"
    /\ calc' = [fn |-> "analyze_message", load |-> calc.load,
                classifier |-> calc.classifier, counts |-> calc.counts,
                result |-> analyze_message(calc.counts, calc.classifier)]
    /\ error' = ""
    /\ DetectorFrame

NextDetector ==
    \/ Construct
    \/ AnalyzeMessage

SpecDetector == InitDetector /\ [][NextDetector]_vars

\* C16: no failure of the classifier reaches the caller: constructing
\* ScamDetector and calling analyze_message raise nothing, and when the
\* classifier fails its score is 0.0 and the returned score is the rule score
\* (clipped to 1.0).
C16_ClassifierFailureNeverRaised ==
    /\ error = ""
    /\ (calc.fn = "analyze_message" /\ calc.classifier.fails # "") =>
          /\ calc.result.ml_score = Pct(0)
          /\ calc.result.score = Min(calc.result.rule_score, Pct(100))

ClaimedCap ==
    [urgency |-> Pct(15), threat |-> Pct(25), request |-> Pct(15),
     sensitive |-> Pct(25), impersonation |-> Pct(10), money |-> Pct(10),
     upi_scam |-> Pct(20), financial_coercion |-> Pct(20)]

Contribution(f) == Min(calc.counts[f] * per_match_weight[f], ClaimedCap[f])

SumOver(fs) ==
    LET sum[S \in SUBSET fs] ==
            IF S = {} THEN 0
            ELSE LET f == CHOOSE x \in S : TRUE
                 IN Contribution(f) + sum[S \ {f}]
    IN sum[fs]

\* C18: for every combination of match counts the rule score is the sum over
\* the eight families of min(count * weight, cap) with the caps 0.15, 0.25,
\* 0.15, 0.25, 0.10, 0.10, 0.20, 0.20, so no family adds more than its cap;
\* the score analyze_message returns is the larger of the rule score and the
\* classifier score, clipped to 1.0, and lies in [0, 1].
C18_RuleScoreCapped ==
    calc.fn = "analyze_message" =>
        /\ calc.result.rule_score = SumOver(Range(Families))
        /\ calc.result.rule_score <= Pct(140)
        /\ calc.result.score >= 0
        /\ calc.result.score <= Pct(100)
        /\ calc.result.score =
              Min(Max(calc.result.rule_score, calc.result.ml_score), Pct(100))

\* Every family is over its cap: the rule score is 1.40 and 1.0 is returned.
C18_Witness ==
    /\ calc.fn = "analyze_message"
    /\ \A f \in Range(Families) : calc.counts[f] = 4
    /\ calc.result.rule_score = Pct(140)
    /\ calc.result.score = Pct(100)
    /\ calc.classifier.fails = "transform"

\* ------------------------------------------------------------ session score
ScammerMessages(msgs) == {k \in DOMAIN msgs : msgs[k].sender = "scammer"}

TotalOf(msgs, ks) ==
    LET sum[S \in SUBSET ks] ==
            IF S = {} THEN 0
            ELSE LET k == CHOOSE x \in S : TRUE
                 IN msgs[k].score + sum[S \ {k}]
    IN sum[ks]

MeanOf(msgs, ks) == IF ks = {} THEN 0 ELSE TotalOf(msgs, ks) \div Cardinality(ks)

KeywordsOf(msgs, ks) == UNION {msgs[k].keywords : k \in ks}

\* C17: the score analyze_session returns is min(mean of the scores of the
\* messages with sender "scammer" + min(0.02 * number of distinct keywords of
\* those messages, 0.2), 1.0), the mean of no message being 0, and it lies
\* in [0, 1].
C17_SessionScoreFormula ==
    verdict.done =>
        LET ks == ScammerMessages(verdict.messages)
            bonus == Min(Pct(2) * Cardinality(KeywordsOf(verdict.messages, ks)), Pct(20))
        IN /\ verdict.score = Min(MeanOf(verdict.messages, ks) + bonus, Pct(100))
           /\ verdict.score >= 0
           /\ verdict.score <= Pct(100)

\* Two scammer messages with more than ten distinct keywords between them:
\* the bonus stops at 0.2 and the score stays below 1.0.
C17_Witness ==
    /\ verdict.done
    /\ Cardinality(ScammerMessages(verdict.messages)) = 2
    /\ Cardinality(KeywordsOf(verdict.messages, ScammerMessages(verdict.messages))) > 10
    /\ verdict.score =
          MeanOf(verdict.messages, ScammerMessages(verdict.messages)) + Pct(20)
    /\ verdict.score < Pct(100)

\* ------------------------------------------------------------ risk aggregator
\* Percent values on both sides of every threshold, and the ends of [0, 1].
LevelPercents ==
    {0, 10, 20, 30, 34, 35, 36, 40, 44, 45, 46, 50, 55, 59, 60, 61, 70, 74, 75,
     76, 80, 85, 90, 100}

\* Aggregate scores, with the values just below 0.35 and 0.6.
ScoreInputs == {Pct(p) : p \in LevelPercents} \cup {Pct(35) - 1, Pct(60) - 1}

\* Classifier confidences, with the values just below 0.45 and 0.75.
ConfidenceInputs == {Pct(p) : p \in LevelPercents} \cup {Pct(45) - 1, Pct(75) - 1}

Labels == {"possible_scam", "not_scam"}

RiskLevelAbove(score) ==
    IF score >= Pct(60) THEN "scam"
    ELSE IF score > Pct(35) THEN "suspicious"
    ELSE "safe"

\* score < 0.35 -> SAFE; 0.35 <= score < 0.6 -> SUSPICIOUS; score >= 0.6 -> SCAM
RiskLevel(score) ==
    IF score >= Pct(60) THEN "scam"
    ELSE IF score >= Pct(35) THEN "suspicious"
    ELSE "safe"

ConfidenceLevelFrom045(ml_prediction) ==
    IF ml_prediction.confidence >= Pct(75) THEN "high"
    ELSE IF ml_prediction.confidence >= Pct(45) THEN "medium"
    ELSE "low"

\* confidence >= 0.75 -> HIGH; below 0.45 -> LOW, and 0.45 itself as well:
\* test_low_confidence_ml_fallback supplies confidence 0.45 and requires LOW
ConfidenceLevel(ml_prediction) ==
    IF ml_prediction.confidence >= Pct(75) THEN "high"
    ELSE IF ml_prediction.confidence > Pct(45) THEN "medium"
    ELSE "low"

InitLevels ==
    /\ store = <<>>
    /\ held = {}
    /\ error = ""
    /\ req = [r \in Requests |-> IdleReq]
    /\ posts = <<>>
    /\ verdict = NoVerdict
    /\ thr = [t \in Threads |-> IdleThread]
    /\ \E s \in ScoreInputs, c \in ConfidenceInputs, l \in Labels :
          calc = [fn |-> "RiskAggregator", score |-> s,
                  ml_prediction |-> [label |-> l, confidence |-> c],
                  confidence_level |-> "", risk_level |-> ""]

LevelsFrame == UNCHANGED <<store, held, error, req, posts, verdict, thr>>

DetermineConfidenceLevel ==
    /\ calc.fn = "RiskAggregator"
    /\ calc.confidence_level = ""
    /\ calc' = [calc EXCEPT !.confidence_level = ConfidenceLevel(calc.ml_prediction)]
    /\ LevelsFrame

DetermineRiskLevel ==
    /\ calc.fn = "RiskAggregator"
    /\ calc.risk_level = ""
    /\ calc' = [calc EXCEPT !.risk_level = RiskLevel(calc.score)]
    /\ LevelsFrame

NextLevels ==
    \/ DetermineConfidenceLevel
    \/ DetermineRiskLevel

SpecLevels == InitLevels /\ [][NextLevels]_vars

RiskRank(level) ==
    CASE level = "safe" -> 0
      [] level = "suspicious" -> 1
      [] level = "scam" -> 2

\* C19: a score below 0.35 is SAFE, one from 0.35 up to but excluding 0.6 is
\* SUSPICIOUS, one of 0.6 or more is SCAM, and no lower score gets a higher
\* risk level than a higher score.
C19_RiskLevelThresholds ==
    (calc.fn = "RiskAggregator" /\ calc.risk_level # "") =>
        /\ calc.risk_level = "safe" <=> calc.score < Pct(35)
        /\ calc.risk_level = "suspicious" <=>
              (Pct(35) <= calc.score /\ calc.score < Pct(60))
        /\ calc.risk_level = "scam" <=> calc.score >= Pct(60)
        /\ \A lower \in ScoreInputs :
              lower <= calc.score =>
                  RiskRank(RiskLevel(lower)) <= RiskRank(calc.risk_level)

\* A score of exactly 0.35 was classified.
C19_Witness ==
    /\ calc.fn = "RiskAggregator"
    /\ calc.score = Pct(35)
    /\ calc.risk_level = "suspicious"

WeightSteps == {5 * k : k \in 0..20}

AllWeights ==
    {w \in [ml : WeightSteps, rules : WeightSteps, intent : WeightSteps] :
        w.ml + w.rules + w.intent = 100}

HighWeightsUnconstrained == AllWeights

\* HIGH: the classifier signal gets the dominant weight (>= 0.8)
HighWeights == {w \in AllWeights : w.ml >= 80}

LowWeightsUnconstrained == AllWeights

\* LOW: rules weight >= 0.3 and intent weight >= 0.25
LowWeights == {w \in AllWeights : w.rules >= 30 /\ w.intent >= 25}

\* MEDIUM: a blend between the two
MediumWeights == {w \in AllWeights : w.ml < 80 /\ w.rules > 0 /\ w.intent > 0}

WeightsFor(confidence_level) ==
    CASE confidence_level = "high" -> HighWeights
      [] confidence_level = "medium" -> MediumWeights
      [] confidence_level = "low" -> LowWeights

\* Rule and intent scores of the message.
SignalInputs == {Pct(0), Pct(50), Pct(100)}

WeightedSumWithFloor(w, rule_score, intent_score, ml_score) ==
    w.rules * rule_score + w.intent * intent_score + w.ml * ml_score
        + 100 * Pct(35)

\* Weighted sum of the three signal scores, in hundredths of a score unit.
WeightedSum(w, rule_score, intent_score, ml_score) ==
    w.rules * rule_score + w.intent * intent_score + w.ml * ml_score

\* analyze(message, ml_prediction) with the weights w: the supplied confidence
\* is the classifier signal; the aggregate is clipped to [0, 1] and mapped to
\* its risk level.
Explanation(rule_score, intent_score, ml_prediction, w) ==
    LET ml_score == ml_prediction.confidence
        score == Min(Max(WeightedSum(w, rule_score, intent_score, ml_score) \div 100, 0),
                     Pct(100))
    IN [fn |-> "analyze",
        rule_score |-> rule_score,
        intent_score |-> intent_score,
        ml_prediction |-> ml_prediction,
        ml_score |-> ml_score,
        confidence_level |-> ConfidenceLevel(ml_prediction),
        weights |-> w,
        score |-> score,
        risk_level |-> RiskLevel(score)]

InitAggregator ==
    /\ store = <<>>
    /\ held = {}
    /\ error = ""
    /\ req = [r \in Requests |-> IdleReq]
    /\ posts = <<>>
    /\ verdict = NoVerdict
    /\ thr = [t \in Threads |-> IdleThread]
    /\ \E r \in SignalInputs, i \in SignalInputs, c \in ConfidenceInputs, l \in Labels :
          calc = [fn |-> "message", rule_score |-> r, intent_score |-> i,
                  ml_prediction |-> [label |-> l, confidence |-> c]]

Analyze ==
    /\ calc.fn = "message"
    /\ \E w \in WeightsFor(ConfidenceLevel(calc.ml_prediction)) :
          calc' = Explanation(calc.rule_score, calc.intent_score, calc.ml_prediction, w)
    /\ LevelsFrame

NextAggregator == Analyze

SpecAggregator == InitAggregator /\ [][NextAggregator]_vars

\* C21: whenever the confidence level is HIGH the classifier weight is >= 0.8,
\* whenever it is LOW the rule weight is >= 0.3 and the intent weight >= 0.25,
\* and under the LOW weights full rule and intent scores give SUSPICIOUS or
\* SCAM whatever the prediction says.
C21_WeightsFollowConfidence ==
    calc.fn = "analyze" =>
        /\ calc.confidence_level = "high" =>
              (calc.ml_prediction.confidence >= Pct(75) /\ calc.weights.ml >= 80)
        /\ calc.confidence_level = "low" =>
              (calc.weights.rules >= 30 /\ calc.weights.intent >= 25)
        /\ (calc.confidence_level = "low" /\ calc.rule_score = Pct(100)
              /\ calc.intent_score = Pct(100)) =>
              calc.risk_level \in {"suspicious", "scam"}

\* A not_scam prediction of low confidence was overridden by the rule and
\* intent scores.
C21_Witness ==
    /\ calc.fn = "analyze"
    /\ calc.ml_prediction = [label |-> "not_scam", confidence |-> Pct(30)]
    /\ calc.confidence_level = "low"
    /\ calc.rule_score = Pct(100)
    /\ calc.intent_score = Pct(100)
    /\ calc.weights = [ml |-> 45, rules |-> 30, intent |-> 25]
    /\ calc.risk_level = "scam"

C23_NoSignalIsSafe ==
    (calc.fn = "analyze" /\ calc.rule_score = 0 /\ calc.intent_score = 0
        /\ calc.ml_score = 0) =>
        /\ calc.score < Pct(35)
        /\ calc.risk_level = "safe"
        /\ \A level \in {"high", "medium", "low"} :
              \A w \in WeightsFor(level) :
                  /\ WeightedSum(w, 0, 0, 0) < 100 * Pct(35)
                  /\ RiskLevel(WeightedSum(w, 0, 0, 0) \div 100) = "safe"

\* A message without any signal was analysed.
C23_Witness ==
    /\ calc.fn = "analyze"
    /\ calc.rule_score = 0
    /\ calc.intent_score = 0
    /\ calc.ml_score = 0
    /\ calc.score = 0
    /\ calc.risk_level = "safe"

\* ------------------------------------------------- analysis without effects
\* A message with the analyze_message result for its text (score, keywords)
\* and with what the extractor's patterns find in its text.
AnalysedMessage(sender, pct, kws, text) ==
    [sender |-> sender, score |-> Pct(pct), keywords |-> kws, text |-> text]

PureMessages ==
    {AnalysedMessage("scammer", 90, {"otp"},
                     Text(<<Plain(12, 0)>>, {"pay@upi"}, {}, {}, {"otp"})),
     AnalysedMessage("user", 90, {"otp", "upi"},
                     Text(<<Plain(10, 3)>>, {"me@upi"}, {}, {}, {"help"})),
     AnalysedMessage("user", 0, {},
                     Text(<<>>, {}, {}, {}, {}))}

\* Arguments of the risk aggregator: signals, prediction and weights in use.
PureAggregatorInputs ==
    {[rule_score |-> Pct(100), intent_score |-> Pct(50),
      ml_prediction |-> [label |-> "not_scam", confidence |-> Pct(45)],
      weights |-> [ml |-> 40, rules |-> 35, intent |-> 25]],
     [rule_score |-> Pct(0), intent_score |-> Pct(0),
      ml_prediction |-> [label |-> "possible_scam", confidence |-> Pct(85)],
      weights |-> [ml |-> 80, rules |-> 10, intent |-> 10]]}

PureId == "A"

\* Number of analysis runs followed.
MaxPureRuns == 3

\* The sessions the analyses start from: a new one, and one already marked.
PureSessions ==
    {NewSession(PureId),
     [NewSession(PureId) EXCEPT !.scamSuspected = TRUE,
                                !.scamConfidenceScore = Pct(50),
                                !.extractedIntelligence = CHOOSE i \in IntelInputs : TRUE]}

InitPure ==
    /\ \E s \in PureSessions : store = (PureId :> s)
    /\ held = {}
    /\ error = ""
    /\ req = [r \in Requests |-> IdleReq]
    /\ posts = <<>>
    /\ verdict = NoVerdict
    /\ thr = [t \in Threads |-> IdleThread]
    /\ calc = [fn |-> "runs", log |-> <<>>]

PureFrame == UNCHANGED <<req, posts, verdict, thr>>

Logged(op, key, output) ==
    calc' = [calc EXCEPT !.log =
                Append(@, [op |-> op, key |-> key, session |-> store[PureId],
                           output |-> output, after |-> store'[PureId]])]

PureAddMessage ==
    /\ CanGrow(PureId, MaxMessages)
    /\ \E m \in PureMessages : add_message(PureId, m)
    /\ UNCHANGED calc
    /\ PureFrame

PureAnalyzeSessionStoring ==
    /\ Len(calc.log) < MaxPureRuns
    /\ LET v == analyze_session(store[PureId])
       IN /\ store' = [store EXCEPT ![PureId].scamConfidenceScore = v.score]
          /\ Logged("analyze_session", store[PureId], v)
    /\ UNCHANGED <<held, error>>
    /\ PureFrame

\* analyze_session only reads session.messages
PureAnalyzeSession ==
    /\ Len(calc.log) < MaxPureRuns
    /\ UNCHANGED <<store, held, error>>
    /\ Logged("analyze_session", store[PureId], analyze_session(store[PureId]))
    /\ PureFrame

\* extract_from_session only reads session.messages
PureExtractFromSession ==
    /\ Len(calc.log) < MaxPureRuns
    /\ UNCHANGED <<store, held, error>>
    /\ Logged("extract_from_session", store[PureId], extract_from_session(store[PureId]))
    /\ PureFrame

\* the risk aggregator is given a message, not the session
PureAnalyze ==
    /\ Len(calc.log) < MaxPureRuns
    /\ UNCHANGED <<store, held, error>>
    /\ \E a \in PureAggregatorInputs :
          Logged("analyze", a,
                 Explanation(a.rule_score, a.intent_score, a.ml_prediction, a.weights))
    /\ PureFrame

NextPure ==
    \/ PureAddMessage
    \/ PureAnalyzeSession
    \/ PureExtractFromSession
    \/ PureAnalyze

SpecPure == InitPure /\ [][NextPure]_vars

Runs == {calc.log[k] : k \in 1..Len(calc.log)}

ScammerOnly(messages) == SelectSeq(messages, LAMBDA m : m.sender = "scammer")

\* C27: two sessions that differ only in messages with sender "user" get the
\* same result from extract_from_session and the same score, flags and
\* keywords from analyze_session.
C27_UserMessagesIgnored ==
    calc.fn = "runs" =>
        \A a \in Runs : \A b \in Runs :
            (a.op = b.op /\ a.op \in {"analyze_session", "extract_from_session"}
                /\ ScammerOnly(a.session.messages) = ScammerOnly(b.session.messages))
              => a.output = b.output

\* The session was analysed and extracted, a user message with keywords and
\* a payment handle was added behind a scammer message, and it was analysed
\* again.
C27_Witness ==
    /\ calc.fn = "runs"
    /\ Len(calc.log) = 3
    /\ calc.log[1].op = "analyze_session"
    /\ calc.log[2].op = "extract_from_session"
    /\ calc.log[3].op = "analyze_session"
    /\ Len(calc.log[1].session.messages) = 1
    /\ calc.log[1].session.messages[1].sender = "scammer"
    /\ Len(calc.log[3].session.messages) = 2
    /\ calc.log[3].session.messages[2].sender = "user"
    /\ calc.log[3].session.messages[2].keywords # {}
    /\ calc.log[3].output = calc.log[1].output

\* ------------------------------------------------------------- payment handles
\* Text characters: \w is a letter, a digit or '_'.
Letters ==
    {"a", "b", "c", "d", "e", "f", "g", "h", "i", "j", "k", "l", "m", "n", "o",
     "p", "q", "r", "s", "t", "u", "v", "w", "x", "y", "z",
     "A", "G", "I", "L", "M", "N", "E", "C", "O", "P", "U", "Y"}
WordChars == Letters \cup Digits \cup {"_"}

\* str.lower() on one character
LowerChar(ch) ==
    CASE ch = "A" -> "a" [] ch = "G" -> "g" [] ch = "I" -> "i" [] ch = "L" -> "l"
      [] ch = "M" -> "m" [] ch = "N" -> "n" [] ch = "E" -> "e" [] ch = "C" -> "c"
      [] ch = "O" -> "o" [] ch = "P" -> "p" [] ch = "U" -> "u" [] ch = "Y" -> "y"
      [] OTHER -> ch

lower(str) == [k \in 1..Len(str) |-> LowerChar(str[k])]

\* sub in str
Contains(str, sub) ==
    \E k \in 1..(Len(str) - Len(sub) + 1) : SubSeq(str, k, k + Len(sub) - 1) = sub

startswith(str, prefix) ==
    Len(str) >= Len(prefix) /\ SubSeq(str, 1, Len(prefix)) = prefix

\* Positions of ch in str
Positions(str, ch) == {k \in 1..Len(str) : str[k] = ch}

\* Length of the longest run of characters of set at the start of str
RunLength(str, set) ==
    IF \A k \in 1..Len(str) : str[k] \in set THEN Len(str)
    ELSE (CHOOSE k \in 1..Len(str) :
             str[k] \notin set /\ \A j \in 1..(k - 1) : str[j] \in set) - 1

\* The words of a text between whitespace, as the extractor's patterns see
\* them; a text is a sequence of such words.
UpiWords ==
    {<<"n", "a", "m", "e", "@", "g", "m", "a", "i", "l", ".", "c", "o", "m">>,
     <<"j", "o", "h", "n", ".", "d", "o", "e", "@", "y", "a", "h", "o", "o", ".", "c", "o", "m">>,
     <<"a", "@", "h", "o", "t", "m", "a", "i", "l", ".", "c", "o", "m">>,
     <<"b", "@", "o", "u", "t", "l", "o", "o", "k", ".", "c", "o", "m">>,
     <<"c", "@", "e", "m", "a", "i", "l", ".", "c", "o", "m">>,
     <<"N", "A", "M", "E", "@", "G", "M", "A", "I", "L", ".", "C", "O", "M">>,
     <<"s", "c", "a", "m", "@", "y", "b", "l">>,
     <<"P", "a", "y", "@", "U", "P", "I">>,
     <<"x", "@", "o", "k", "h", "d", "f", "c", "b", "a", "n", "k">>,
     <<"x", "@", "v", "e", "r", "y", "l", "o", "n", "g", "b", "a", "n", "k", "n", "a", "m", "e">>,
     <<"x", "@", "m", "y", "s", "b", "i", "b", "a", "n", "k", "h", "a", "n", "d", "l", "e">>,
     <<"a", "@", "b", "@", "c">>,
     <<"h", "e", "l", "l", "o">>,
     <<"@", "y", "b", "l">>,
     <<"m", "e", "@", "c", "o", "r", "p", ".", "e", "x", "a", "m", "p", "l", "e", ".", "c", "o", "m">>}

UpiTexts == {<<>>} \cup {<<a>> : a \in UpiWords}
               \cup {<<a, b>> : a \in UpiWords, b \in UpiWords}

UpiProviders ==
    {<<"u", "p", "i">>,
     <<"y", "b", "l">>,
     <<"p", "a", "y", "t", "m">>,
     <<"o", "k", "a", "x", "i", "s">>,
     <<"o", "k", "h", "d", "f", "c", "b", "a", "n", "k">>,
     <<"o", "k", "s", "b", "i">>,
     <<"a", "p", "l">>,
     <<"i", "b", "l">>}

\* r'\b[\w.-]+@[\w]+\b' on one word: the characters up to the first '@'
\* (starting at a word character) and the run of word characters behind it.
StandardUpiMatch(word) ==
    IF Positions(word, "@") = {} THEN {}
    ELSE LET at == CHOOSE k \in Positions(word, "@") : \A j \in Positions(word, "@") : k <= j
             rest == SubSeq(word, at + 1, Len(word))
             run == RunLength(rest, WordChars)
         IN IF at > 1 /\ word[1] \in WordChars
               /\ (\A k \in 1..(at - 1) : word[k] \in WordChars \cup {".", "-"})
               /\ run > 0
            THEN {SubSeq(word, 1, at + run)}
            ELSE {}

\* r'\b[\w.-]+@(?:upi|ybl|paytm|okaxis|okhdfcbank|oksbi|apl|ibl)\b': as above,
\* the run behind '@' being one of the providers (case ignored)
ProviderUpiMatch(word) ==
    {m \in StandardUpiMatch(word) :
        \E p \in UpiProviders :
            /\ Len(m) > Len(p)
            /\ lower(SubSeq(m, Len(m) - Len(p) + 1, Len(m))) = p
            /\ m[Len(m) - Len(p)] = "@"}

\* _extract_with_patterns(text, self.upi_re)
UpiMatches(text) ==
    UNION {StandardUpiMatch(text[k]) \cup ProviderUpiMatch(text[k]) : k \in 1..Len(text)}

upi_suffixes ==
    {<<"u", "p", "i">>,
     <<"y", "b", "l">>,
     <<"p", "a", "y", "t", "m">>,
     <<"o", "k", "a", "x", "i", "s">>,
     <<"o", "k", "h", "d", "f", "c", "b", "a", "n", "k">>,
     <<"o", "k", "s", "b", "i">>,
     <<"a", "p", "l">>,
     <<"i", "b", "l">>,
     <<"i", "c", "i", "c", "i">>,
     <<"s", "b", "i">>,
     <<"h", "d", "f", "c">>}

EmailDomains ==
    {<<"g", "m", "a", "i", "l", ".", "c", "o", "m">>,
     <<"y", "a", "h", "o", "o", ".", "c", "o", "m">>,
     <<"h", "o", "t", "m", "a", "i", "l", ".", "c", "o", "m">>,
     <<"o", "u", "t", "l", "o", "o", "k", ".", "c", "o", "m">>,
     <<"e", "m", "a", "i", "l", ".", "c", "o", "m">>}

\* parts = match.split('@'); len(parts) == 2; suffix = parts[1].lower()
UpiAccepted(match) ==
    /\ Cardinality(Positions(match, "@")) = 1
    /\ LET at == CHOOSE k \in Positions(match, "@") : TRUE
           suffix == lower(SubSeq(match, at + 1, Len(match)))
       IN /\ (\E s \in upi_suffixes : Contains(suffix, s)) \/ Len(suffix) <= 10
          /\ suffix \notin EmailDomains

_filter_upi_ids(matches) == {lower(match) : match \in {m \in matches : UpiAccepted(m)}}

InitUpi ==
    /\ store = <<>>
    /\ held = {}
    /\ error = ""
    /\ req = [r \in Requests |-> IdleReq]
    /\ posts = <<>>
    /\ verdict = NoVerdict
    /\ thr = [t \in Threads |-> IdleThread]
    /\ \E t \in UpiTexts : calc = [fn |-> "text", text |-> t]

\* upiIds=self._filter_upi_ids(self._extract_with_patterns(text, self.upi_re))
ExtractUpiIds ==
    /\ calc.fn = "text"
    /\ calc' = [fn |-> "upiIds", text |-> calc.text,
                upi_matches |-> UpiMatches(calc.text),
                upiIds |-> _filter_upi_ids(UpiMatches(calc.text))]
    /\ UNCHANGED <<store, held, error, req, posts, verdict, thr>>

NextUpi == ExtractUpiIds

SpecUpi == InitUpi /\ [][NextUpi]_vars

\* A word that is an address at one of the generic email domains.
GenericEmail(word) ==
    \E d \in EmailDomains :
        /\ Len(word) > Len(d) + 1
        /\ lower(SubSeq(word, Len(word) - Len(d) + 1, Len(word))) = d
        /\ word[Len(word) - Len(d)] = "@"

\* C28: no entry of upiIds comes from an address at gmail.com, yahoo.com,
\* hotmail.com, outlook.com or email.com: no entry is the beginning of such
\* an address of the text.
C28_NoHandleFromEmail ==
    calc.fn = "upiIds" =>
        \A id \in calc.upiIds :
            \A k \in 1..Len(calc.text) :
                GenericEmail(calc.text[k]) => ~startswith(lower(calc.text[k]), id)

\* ------------------------------------------------------------- phone numbers
\* Ten-digit runs found in a text.
TenDigits ==
    {<<"9", "8", "7", "6", "5", "4", "3", "2", "1", "0">>,
     <<"9", "1", "9", "8", "7", "6", "5", "4", "3", "2">>,
     <<"6", "0", "0", "0", "0", "0", "0", "0", "0", "0">>,
     <<"1", "2", "3", "4", "5", "6", "7", "8", "9", "0">>,
     <<"0", "9", "8", "7", "6", "5", "4", "3", "2", "1">>,
     <<"5", "9", "9", "9", "9", "9", "9", "9", "9", "9">>}

\* What PHONE_PATTERNS can match around a ten-digit run: +91, 91 (each with an
\* optional '-' or whitespace) or 0 in front, or the bare run when it starts
\* with 6-9.
PhoneSpellings(d) ==
    {<<"+", "9", "1">> \o sep \o d : sep \in {<<>>, <<"-">>, <<" ">>}}
      \cup {<<"9", "1">> \o sep \o d : sep \in {<<>>, <<"-">>, <<"\t">>}}
      \cup {<<"0">> \o d}
      \cup (IF d[1] \in {"6", "7", "8", "9"} THEN {d} ELSE {})

PhoneCandidates == UNION {PhoneSpellings(d) : d \in TenDigits}

PhoneMatchLists ==
    {<<>>} \cup {<<a>> : a \in PhoneCandidates}
      \cup {<<a, b>> : a \in PhoneCandidates,
                       b \in PhoneSpellings(<<"9", "8", "7", "6", "5", "4", "3", "2", "1", "0">>) \cup {<<"0", "9", "1", "9", "8", "7", "6", "5", "4", "3", "2">>}}

\* re.sub(r'[-\s+]', '', match)
CleanPhone(match) ==
    SelectSeq(match, LAMBDA ch : ch \notin {"-", "+"} /\ ch \notin Whitespace)

\* Remove leading 0 or 91
StripPrefix(clean) ==
    IF startswith(clean, <<"9", "1">>) /\ Len(clean) > 10
    THEN SubSeq(clean, 3, Len(clean))
    ELSE IF startswith(clean, <<"0">>) /\ Len(clean) > 10
         THEN SubSeq(clean, 2, Len(clean))
         ELSE clean

ValidMobileAnyStart(clean) == Len(clean) = 10

\* len(clean) == 10 and clean[0] in '6789'
ValidMobile(clean) == Len(clean) = 10 /\ clean[1] \in {"6", "7", "8", "9"}

RECURSIVE FilterPhones(_, _, _)
FilterPhones(matches, k, valid_phones) ==
    IF k > Len(matches) THEN valid_phones
    ELSE LET clean == StripPrefix(CleanPhone(matches[k]))
             formatted == <<"+", "9", "1">> \o clean
         IN IF ValidMobile(clean) /\ ~InList(formatted, valid_phones)
            THEN FilterPhones(matches, k + 1, Append(valid_phones, formatted))
            ELSE FilterPhones(matches, k + 1, valid_phones)

_filter_phone_numbers(matches) == FilterPhones(matches, 1, <<>>)

InitPhone ==
    /\ store = <<>>
    /\ held = {}
    /\ error = ""
    /\ req = [r \in Requests |-> IdleReq]
    /\ posts = <<>>
    /\ verdict = NoVerdict
    /\ thr = [t \in Threads |-> IdleThread]
    /\ \E ms \in PhoneMatchLists : calc = [fn |-> "phone_matches", matches |-> ms]

FilterPhoneNumbers ==
    /\ calc.fn = "phone_matches"
    /\ calc' = [fn |-> "_filter_phone_numbers", matches |-> calc.matches,
                result |-> _filter_phone_numbers(calc.matches)]
    /\ UNCHANGED <<store, held, error, req, posts, verdict, thr>>

NextPhone == FilterPhoneNumbers

SpecPhone == InitPhone /\ [][NextPhone]_vars

\* The raw match without '-', whitespace and '+', and without one leading
\* "91" or "0" when more than 10 characters remain.
NationalNumber(raw) ==
    LET kept == {k \in 1..Len(raw) : raw[k] \notin {"-", "+", " ", "\t"}}
        n == Cardinality(kept)
        nth(j) == CHOOSE k \in kept : Cardinality({i \in kept : i < k}) = j - 1
        bare == [j \in 1..n |-> raw[nth(j)]]
        drop == IF n > 10 /\ bare[1] = "9" /\ bare[2] = "1" THEN 2
                ELSE IF n > 10 /\ bare[1] = "0" THEN 1 ELSE 0
    IN [j \in 1..(n - drop) |-> bare[j + drop]]

IsMobile(number) ==
    /\ Len(number) = 10
    /\ \A k \in 1..10 : number[k] \in Digits
    /\ number[1] \in {"6", "7", "8", "9"}

\* C29: every entry of phoneNumbers is "+91" followed by 10 digits the first
\* of which is 6, 7, 8 or 9; a raw match gives an entry exactly when, without
\* '-', whitespace and '+' and without one leading "91" or "0" (when more
\* than 10 characters remain), it is such a number; and no entry occurs
\* twice, whatever the spellings of the number were.
C29_PhoneNumbersNormalised ==
    calc.fn = "_filter_phone_numbers" =>
        /\ \A k \in 1..Len(calc.result) :
              LET entry == calc.result[k]
              IN /\ Len(entry) = 13
                 /\ SubSeq(entry, 1, 3) = <<"+", "9", "1">>
                 /\ IsMobile(SubSeq(entry, 4, 13))
                 /\ \E c \in 1..Len(calc.matches) :
                       NationalNumber(calc.matches[c]) = SubSeq(entry, 4, 13)
        /\ \A c \in 1..Len(calc.matches) :
              IsMobile(NationalNumber(calc.matches[c])) =>
                  InList(<<"+", "9", "1">> \o NationalNumber(calc.matches[c]), calc.result)
        /\ \A j \in 1..Len(calc.result) : \A k \in 1..Len(calc.result) :
              calc.result[j] = calc.result[k] => j = k

\* Two spellings of one number gave one entry.
C29_Witness ==
    /\ calc.fn = "_filter_phone_numbers"
    /\ calc.matches = <<<<"9", "1", "\t", "9", "8", "7", "6", "5", "4", "3", "2", "1", "0">>, <<"+", "9", "1", "-", "9", "8", "7", "6", "5", "4", "3", "2", "1", "0">>>>
    /\ calc.result = <<<<"+", "9", "1", "9", "8", "7", "6", "5", "4", "3", "2", "1", "0">>>>

\* -------------------------------------------------------------------- links
\* Matches LINK_PATTERNS can produce (compiled with re.IGNORECASE).
LinkCandidates ==
    {<<"h", "t", "t", "p", ":", "/", "/", "e", "v", "i", "l", ".", "x", "y", "z", "/", "a">>,
     <<"h", "t", "t", "p", "s", ":", "/", "/", "e", "v", "i", "l", ".", "x", "y", "z", "/", "a">>,
     <<"h", "t", "t", "p", "s", ":", "/", "/", "g", "o", "o", "g", "l", "e", ".", "c", "o", "m", "/", "a">>,
     <<"w", "w", "w", ".", "e", "v", "i", "l", ".", "x", "y", "z", "/", "a">>,
     <<"e", "v", "i", "l", ".", "x", "y", "z", "/", "a">>,
     <<"b", "i", "t", ".", "l", "y", "/", "a", "b">>,
     <<"t", ".", "c", "o", "/", "a", "b">>,
     <<"h", "t", "t", "p", "b", "i", "n", ".", "o", "r", "g", "/", "a">>,
     <<"h", "t", "t", "p", ":", "/", "/", "e", "v", "i", "l", ".", "x", "y", "z", "/", "?", "g", "o", "o", "g", "l", "e", ".", "c", "o", "m">>,
     <<"w", "w", "w", ".", "f", "a", "c", "e", "b", "o", "o", "k", ".", "c", "o", "m">>,
     <<"G", "O", "O", "G", "L", "E", ".", "C", "O", "M", "/", "a">>,
     <<"y", "o", "u", "t", "u", "b", "e", ".", "c", "o", "m", "/", "a">>,
     <<"m", "y", "g", "o", "o", "g", "l", "e", ".", "c", "o", "m", "/", "a">>}

\* list(set(matches)) handed to the filter: up to two matches of one text.
LinkMatchSets == {ms \in SUBSET LinkCandidates : Cardinality(ms) <= 2}

safe_domains ==
    {<<"g", "o", "o", "g", "l", "e", ".", "c", "o", "m">>,
     <<"f", "a", "c", "e", "b", "o", "o", "k", ".", "c", "o", "m">>,
     <<"t", "w", "i", "t", "t", "e", "r", ".", "c", "o", "m">>,
     <<"i", "n", "s", "t", "a", "g", "r", "a", "m", ".", "c", "o", "m">>,
     <<"y", "o", "u", "t", "u", "b", "e", ".", "c", "o", "m">>,
     <<"l", "i", "n", "k", "e", "d", "i", "n", ".", "c", "o", "m">>}

\* domain in match.lower() for some safe domain
is_safe(match) == \E domain \in safe_domains : Contains(lower(match), domain)

\* if not match.startswith('http'): match = 'http://' + match
NormalizeUrl(match) ==
    IF ~startswith(match, <<"h", "t", "t", "p">>)
    THEN <<"h", "t", "t", "p", ":", "/", "/">> \o match
    ELSE match

_filter_links(matches) == {NormalizeUrl(match) : match \in {m \in matches : ~is_safe(m)}}

InitLinks ==
    /\ store = <<>>
    /\ held = {}
    /\ error = ""
    /\ req = [r \in Requests |-> IdleReq]
    /\ posts = <<>>
    /\ verdict = NoVerdict
    /\ thr = [t \in Threads |-> IdleThread]
    /\ \E ms \in LinkMatchSets : calc = [fn |-> "link_matches", matches |-> ms]

FilterLinks ==
    /\ calc.fn = "link_matches"
    /\ calc' = [fn |-> "_filter_links", matches |-> calc.matches,
                phishingLinks |-> _filter_links(calc.matches)]
    /\ UNCHANGED <<store, held, error, req, posts, verdict, thr>>

NextLinks == FilterLinks

SpecLinks == InitLinks /\ [][NextLinks]_vars

HttpScheme == <<"h", "t", "t", "p", ":", "/", "/">>
HttpsScheme == <<"h", "t", "t", "p", "s", ":", "/", "/">>

HasScheme(link) ==
    startswith(lower(link), HttpScheme) \/ startswith(lower(link), HttpsScheme)

WithoutScheme(link) ==
    IF startswith(lower(link), HttpsScheme) THEN SubSeq(link, 9, Len(link))
    ELSE IF startswith(lower(link), HttpScheme) THEN SubSeq(link, 8, Len(link))
    ELSE link

\* The host part of a match: what follows the scheme, up to the first '/',
\* '?' or ':'.
DomainOf(match) ==
    LET rest == lower(WithoutScheme(match))
        ends == {k \in 1..Len(rest) : rest[k] \in {"/", "?", ":"}}
        stop == IF ends = {} THEN Len(rest) + 1
                ELSE CHOOSE k \in ends : \A j \in ends : k <= j
    IN SubSeq(rest, 1, stop - 1)

\* The domain is an allow-listed domain or a subdomain of one.
OnAllowList(domain) ==
    \E safe \in safe_domains :
        \/ domain = safe
        \/ /\ Len(domain) > Len(safe) + 1
           /\ SubSeq(domain, Len(domain) - Len(safe), Len(domain)) = <<".">> \o safe

WithDefaultScheme(match) == IF HasScheme(match) THEN match ELSE HttpScheme \o match

\* C30: every entry of phishingLinks begins with a URL scheme (a match without
\* one gets "http://" in front), no match whose domain is on the safe
\* allow-list is in phishingLinks, and every match on another domain is kept.
C30_LinksNormalisedAndFiltered ==
    calc.fn = "_filter_links" =>
        /\ \A link \in calc.phishingLinks : HasScheme(link)
        /\ \A match \in calc.matches :
              IF OnAllowList(DomainOf(match))
              THEN WithDefaultScheme(match) \notin calc.phishingLinks
              ELSE WithDefaultScheme(match) \in calc.phishingLinks

\* ------------------------------------------------------------ intent scorer
\* IntentScorer.calculate_intent_score(text) -> (score, details); details
\* exposes pattern_counts per category and components, among them the
\* combination_bonus.  Scores are in percent.
IntentCategories == {"urgency", "coercion", "financial", "upi_scam"}

\* How many patterns of a category match the text.
PatternCountInputs == 0..3
PatternCounts == [IntentCategories -> PatternCountInputs]

\* The scorer's own parameters: the score one matching pattern adds to its
\* category, the cap of a category, and the bonus per additional category.
IntentParameters ==
    [per_match : {10, 15}, cap : {25, 40}, bonus : {5, 10, 20}]

Fired(pattern_counts) == {cat \in IntentCategories : pattern_counts[cat] > 0}

ComponentScore(p, pattern_count) == Min(pattern_count * p.per_match, p.cap)

CombinationBonusFromThree(p, pattern_counts) ==
    IF Cardinality(Fired(pattern_counts)) >= 3
    THEN p.bonus * (Cardinality(Fired(pattern_counts)) - 1)
    ELSE 0

\* Added when two or more categories fire in the same message.
CombinationBonus(p, pattern_counts) ==
    IF Cardinality(Fired(pattern_counts)) >= 2
    THEN p.bonus * (Cardinality(Fired(pattern_counts)) - 1)
    ELSE 0

RECURSIVE SumComponents(_, _, _)
SumComponents(p, pattern_counts, cats) ==
    IF cats = {} THEN 0
    ELSE LET cat == CHOOSE x \in cats : TRUE
         IN ComponentScore(p, pattern_counts[cat])
              + SumComponents(p, pattern_counts, cats \ {cat})

calculate_intent_score(p, pattern_counts) ==
    LET components == [cat \in IntentCategories |->
                           ComponentScore(p, pattern_counts[cat])]
        combination_bonus == CombinationBonus(p, pattern_counts)
        total == SumComponents(p, pattern_counts, IntentCategories)
                   + combination_bonus
    IN [score |-> Min(Max(total, 0), 100),
        pattern_counts |-> pattern_counts,
        components |-> components,
        combination_bonus |-> combination_bonus,
        unclipped |-> total]

InitIntent ==
    /\ store = <<>>
    /\ held = {}
    /\ error = ""
    /\ req = [r \in Requests |-> IdleReq]
    /\ posts = <<>>
    /\ verdict = NoVerdict
    /\ thr = [t \in Threads |-> IdleThread]
    /\ \E p \in IntentParameters : \E pc \in PatternCounts :
          calc = [fn |-> "intent_text", parameters |-> p, pattern_counts |-> pc]

CalculateIntentScore ==
    /\ calc.fn = "intent_text"
    /\ calc' = [fn |-> "calculate_intent_score", parameters |-> calc.parameters,
                details |-> calculate_intent_score(calc.parameters,
                                                   calc.pattern_counts)]
    /\ UNCHANGED <<store, held, error, req, posts, verdict, thr>>

NextIntent == CalculateIntentScore

SpecIntent == InitIntent /\ [][NextIntent]_vars

RiskLevels == {"safe", "suspicious", "scam"}

EngagementScores == {5 * k : k \in 0..20}

\* The score from which a scam is engaged aggressively: above 0.7, where the
\* strategy is still cautious, and at most 0.9, where it is aggressive.
AggressiveFrom == {75, 80, 85, 90}

should_engage(risk_level, score) == risk_level \in {"suspicious", "scam"}

get_engagement_strategy_cautious(risk_level, score, aggressive_from) ==
    IF risk_level = "safe" THEN "minimal_engagement"
    ELSE IF risk_level = "suspicious" THEN "probing_engagement"
    ELSE "cautious_engagement"

get_engagement_strategy(risk_level, score, aggressive_from) ==
    IF risk_level = "safe" THEN "minimal_engagement"
    ELSE IF risk_level = "suspicious" THEN "probing_engagement"
    ELSE IF score >= aggressive_from THEN "aggressive_engagement"
    ELSE "cautious_engagement"

InitEngagement ==
    /\ store = <<>>
    /\ held = {}
    /\ error = ""
    /\ req = [r \in Requests |-> IdleReq]
    /\ posts = <<>>
    /\ verdict = NoVerdict
    /\ thr = [t \in Threads |-> IdleThread]
    /\ \E level \in RiskLevels : \E score \in EngagementScores :
       \E from \in AggressiveFrom :
          calc = [fn |-> "engagement_inputs", risk_level |-> level,
                  score |-> score, aggressive_from |-> from]

ShouldEngage ==
    /\ calc.fn = "engagement_inputs"
    /\ calc' = [calc EXCEPT !.fn = "should_engage"] @@
               [engage |-> should_engage(calc.risk_level, calc.score)]
    /\ UNCHANGED <<store, held, error, req, posts, verdict, thr>>

GetEngagementStrategy ==
    /\ calc.fn = "engagement_inputs"
    /\ calc' = [calc EXCEPT !.fn = "get_engagement_strategy"] @@
               [strategy |-> get_engagement_strategy(calc.risk_level, calc.score,
                                                     calc.aggressive_from)]
    /\ UNCHANGED <<store, held, error, req, posts, verdict, thr>>

NextEngagement == ShouldEngage \/ GetEngagementStrategy

SpecEngagement == InitEngagement /\ [][NextEngagement]_vars

StrategyRank(strategy) ==
    CASE strategy = "minimal_engagement" -> 0
      [] strategy = "probing_engagement" -> 1
      [] strategy = "cautious_engagement" -> 2
      [] strategy = "aggressive_engagement" -> 3

TypeKeywords ==
    {<<"b", "a", "n", "k">>, <<"P", "I", "N">>, <<"o", "t", "p">>, <<"p", "r", "i", "z", "e">>, <<"U", "P", "I">>, <<"g", "p", "a", "y">>, <<"k", "y", "c">>, <<"P", "A", "N">>, <<"h", "e", "l", "l", "o">>}

MaxTypeKeywords == 3

TypeKeywordLists == UNION {[1..n -> TypeKeywords] : n \in 0..MaxTypeKeywords}

banking_triggers == {<<"b", "a", "n", "k">>, <<"a", "c", "c", "o", "u", "n", "t">>, <<"b", "l", "o", "c", "k", "e", "d">>, <<"s", "u", "s", "p", "e", "n", "d", "e", "d">>}
credential_triggers == {<<"o", "t", "p">>, <<"p", "i", "n">>, <<"p", "a", "s", "s", "w", "o", "r", "d">>, <<"c", "v", "v">>}
lottery_triggers == {<<"p", "r", "i", "z", "e">>, <<"l", "o", "t", "t", "e", "r", "y">>, <<"w", "i", "n", "n", "e", "r">>, <<"r", "e", "w", "a", "r", "d">>}
upi_triggers == {<<"u", "p", "i">>, <<"p", "a", "y", "t", "m">>, <<"g", "p", "a", "y">>, <<"p", "h", "o", "n", "e", "p", "e">>}
kyc_triggers == {<<"k", "y", "c">>, <<"a", "a", "d", "h", "a", "a", "r">>, <<"p", "a", "n">>}

\* any(k in keyword_set for k in triggers)
any_in(triggers, keyword_set) == \E k \in triggers : k \in keyword_set

ScamTypeOf(keyword_set) ==
    IF any_in(banking_triggers, keyword_set) THEN "Banking Fraud"
    ELSE IF any_in(credential_triggers, keyword_set) THEN "Credential Phishing"
    ELSE IF any_in(lottery_triggers, keyword_set) THEN "Lottery/Prize Scam"
    ELSE IF any_in(upi_triggers, keyword_set) THEN "UPI Fraud"
    ELSE IF any_in(kyc_triggers, keyword_set) THEN "KYC Fraud"
    ELSE "General Scam"

get_scam_type_as_spelled(keywords) ==
    ScamTypeOf({keywords[k] : k \in 1..Len(keywords)})

\* keyword_set = set(k.lower() for k in keywords)
get_scam_type(keywords) ==
    ScamTypeOf({lower(keywords[k]) : k \in 1..Len(keywords)})

InitScamType ==
    /\ store = <<>>
    /\ held = {}
    /\ error = ""
    /\ req = [r \in Requests |-> IdleReq]
    /\ posts = <<>>
    /\ verdict = NoVerdict
    /\ thr = [t \in Threads |-> IdleThread]
    /\ \E ks \in TypeKeywordLists : calc = [fn |-> "keywords", keywords |-> ks]

GetScamType ==
    /\ calc.fn = "keywords"
    /\ calc' = [fn |-> "get_scam_type", keywords |-> calc.keywords,
                type |-> get_scam_type(calc.keywords)]
    /\ UNCHANGED <<store, held, error, req, posts, verdict, thr>>

NextScamType == GetScamType

SpecScamType == InitScamType /\ [][NextScamType]_vars

\* The categories in their precedence order, with their trigger keywords.
TypePrecedence ==
    <<[type |-> "Banking Fraud", triggers |-> banking_triggers],
      [type |-> "Credential Phishing", triggers |-> credential_triggers],
      [type |-> "Lottery/Prize Scam", triggers |-> lottery_triggers],
      [type |-> "UPI Fraud", triggers |-> upi_triggers],
      [type |-> "KYC Fraud", triggers |-> kyc_triggers]>>

Lowered(keywords) == {lower(keywords[k]) : k \in 1..Len(keywords)}

Hits(keywords) ==
    {c \in 1..Len(TypePrecedence) :
        TypePrecedence[c].triggers \cap Lowered(keywords) # {}}

\* C31: get_scam_type returns the first category in the order Banking Fraud,
\* Credential Phishing, Lottery/Prize Scam, UPI Fraud, KYC Fraud whose
\* triggers meet the lower-cased keywords, General Scam when none does, and
\* the same type for every list holding the same keywords in any order and
\* multiplicity.
C31_ScamTypePrecedence ==
    calc.fn = "get_scam_type" =>
        /\ IF Hits(calc.keywords) = {}
           THEN calc.type = "General Scam"
           ELSE \E c \in Hits(calc.keywords) :
                   /\ \A d \in Hits(calc.keywords) : c <= d
                   /\ calc.type = TypePrecedence[c].type
        /\ \A other \in TypeKeywordLists :
              Range(other) = Range(calc.keywords) =>
                  get_scam_type(other) = calc.type

\* Upper-case keywords of three categories, the lowest-ranked first: the
\* highest-ranked category is returned.
C31_Witness ==
    /\ calc.fn = "get_scam_type"
    /\ calc.keywords = <<<<"P", "A", "N">>, <<"U", "P", "I">>, <<"P", "I", "N">>>>
    /\ calc.type = "Credential Phishing"

\* ------------------------------------------------------------- review queue
\* ReviewQueueService.should_queue(risk_level, aggregated_score,
\* ml_confidence_level); scores are in percent.
QueueScores == 0..100

QueueConfidenceLevels == {"high", "medium", "low"}

should_queue_below_070(risk_level, aggregated_score, ml_confidence_level) ==
    IF risk_level = "suspicious" THEN TRUE
    ELSE IF ml_confidence_level = "low" /\ aggregated_score >= 55 THEN TRUE
    ELSE IF risk_level = "scam" /\ 60 <= aggregated_score /\ aggregated_score < 70
         THEN TRUE
    ELSE FALSE

should_queue(risk_level, aggregated_score, ml_confidence_level) ==
    IF risk_level = "suspicious" THEN TRUE
    ELSE IF ml_confidence_level = "low" /\ aggregated_score >= 55 THEN TRUE
    ELSE IF risk_level = "scam" /\ 60 <= aggregated_score /\ aggregated_score <= 70
         THEN TRUE
    ELSE FALSE

InitShouldQueue ==
    /\ store = <<>>
    /\ held = {}
    /\ error = ""
    /\ req = [r \in Requests |-> IdleReq]
    /\ posts = <<>>
    /\ verdict = NoVerdict
    /\ thr = [t \in Threads |-> IdleThread]
    /\ \E level \in RiskLevels : \E score \in QueueScores :
       \E confidence \in QueueConfidenceLevels :
          calc = [fn |-> "queue_inputs", risk_level |-> level,
                  aggregated_score |-> score, ml_confidence_level |-> confidence]

ShouldQueue ==
    /\ calc.fn = "queue_inputs"
    /\ calc' = [calc EXCEPT !.fn = "should_queue"] @@
               [queued |-> should_queue(calc.risk_level, calc.aggregated_score,
                                        calc.ml_confidence_level)]
    /\ UNCHANGED <<store, held, error, req, posts, verdict, thr>>

NextShouldQueue == ShouldQueue

SpecShouldQueue == InitShouldQueue /\ [][NextShouldQueue]_vars

MaxQueueSize == 2
MaxAdds == 4

FinalDecisions == {"safe", "scam"}

ReviewQueueItem(n, session_id) ==
    [n |-> n, session_id |-> session_id, reviewed |-> FALSE,
     final_decision |-> "None"]

deque_append_unbounded(queue, item, maxlen) == Append(queue, item)

\* deque.append on a deque with maxlen: a full deque drops its leftmost item.
deque_append(queue, item, maxlen) ==
    IF maxlen = 0 THEN queue
    ELSE IF Len(queue) >= maxlen THEN Append(Tail(queue), item)
    ELSE Append(queue, item)

FirstPendingNewest(queue, session_id) ==
    LET hits == {k \in 1..Len(queue) :
                    queue[k].session_id = session_id /\ ~queue[k].reviewed}
    IN IF hits = {} THEN 0 ELSE CHOOSE k \in hits : \A j \in hits : k >= j

\* The first item the loop of mark_reviewed stops at; 0 when it runs through.
FirstPending(queue, session_id) ==
    LET hits == {k \in 1..Len(queue) :
                    queue[k].session_id = session_id /\ ~queue[k].reviewed}
    IN IF hits = {} THEN 0 ELSE CHOOSE k \in hits : \A j \in hits : k <= j

get_stats ==
    [total_items |-> Len(calc.queue),
     pending_review |->
         Cardinality({k \in 1..Len(calc.queue) : ~calc.queue[k].reviewed}),
     reviewed |->
         Cardinality({k \in 1..Len(calc.queue) : calc.queue[k].reviewed}),
     reviewed_items_stored |-> Len(calc.reviewed_items),
     max_queue_size |-> calc.max_queue_size]

InitReviewQueue ==
    /\ store = <<>>
    /\ held = {}
    /\ error = ""
    /\ req = [r \in Requests |-> IdleReq]
    /\ posts = <<>>
    /\ verdict = NoVerdict
    /\ thr = [t \in Threads |-> IdleThread]
    /\ \E size \in 0..MaxQueueSize :
          calc = [fn |-> "ReviewQueueService", max_queue_size |-> size,
                  queue |-> <<>>, reviewed_items |-> <<>>, added |-> 0,
                  last |-> [op |-> "__init__", session_id |-> "",
                            result |-> FALSE]]

AddToQueue(session_id) ==
    /\ calc.fn = "ReviewQueueService"
    /\ calc.added < MaxAdds
    /\ calc' = [calc EXCEPT
                  !.queue = deque_append(calc.queue,
                                         ReviewQueueItem(calc.added + 1, session_id),
                                         calc.max_queue_size),
                  !.added = calc.added + 1,
                  !.last = [op |-> "add_to_queue", session_id |-> session_id,
                            result |-> TRUE]]
    /\ UNCHANGED <<store, held, error, req, posts, verdict, thr>>

MarkReviewed(session_id, final_decision) ==
    /\ calc.fn = "ReviewQueueService"
    /\ LET k == FirstPending(calc.queue, session_id)
       IN IF k = 0
          THEN calc' = [calc EXCEPT
                          !.last = [op |-> "mark_reviewed",
                                    session_id |-> session_id,
                                    result |-> FALSE]]
          ELSE calc' = [calc EXCEPT
                          !.queue[k].reviewed = TRUE,
                          !.queue[k].final_decision = final_decision,
                          !.reviewed_items = Append(calc.reviewed_items,
                                                    calc.queue[k].n),
                          !.last = [op |-> "mark_reviewed",
                                    session_id |-> session_id,
                                    result |-> TRUE]]
    /\ UNCHANGED <<store, held, error, req, posts, verdict, thr>>

NextReviewQueue ==
    \/ \E session_id \in SessionIds : AddToQueue(session_id)
    \/ \E session_id \in SessionIds : \E final_decision \in FinalDecisions :
          MarkReviewed(session_id, final_decision)

SpecReviewQueue == InitReviewQueue /\ [][NextReviewQueue]_vars

\* C33: the queue never holds more than max_queue_size items, and it holds
\* the most recently added min(n, max_queue_size) items in the order they
\* were added, so adding to a full queue evicts exactly the oldest item.
C33_QueueBoundedFifo ==
    calc.fn = "ReviewQueueService" =>
        /\ Len(calc.queue) <= calc.max_queue_size
        /\ Len(calc.queue) = Min(calc.added, calc.max_queue_size)
        /\ \A k \in 1..Len(calc.queue) :
              calc.queue[k].n = calc.added - Len(calc.queue) + k

\* An item was added to a full queue, and the oldest item is gone.
C33_Witness ==
    /\ calc.fn = "ReviewQueueService"
    /\ calc.last.op = "add_to_queue"
    /\ calc.max_queue_size > 0
    /\ calc.added > calc.max_queue_size
    /\ Len(calc.queue) = calc.max_queue_size
    /\ calc.queue[1].n = calc.added - calc.max_queue_size + 1

MarkedAsClaimed ==
    LET session_id == calc'.last.session_id
        pending == {j \in 1..Len(calc.queue) :
                       calc.queue[j].session_id = session_id
                         /\ ~calc.queue[j].reviewed}
        k == CHOOSE oldest \in pending : \A j \in pending : oldest <= j
    IN IF pending = {}
       THEN /\ calc'.last.result = FALSE
            /\ calc'.queue = calc.queue
            /\ calc'.reviewed_items = calc.reviewed_items
       ELSE /\ calc'.last.result = TRUE
            /\ Len(calc'.queue) = Len(calc.queue)
            /\ \A j \in 1..Len(calc.queue) :
                  IF j = k
                  THEN /\ calc'.queue[j].reviewed
                       /\ calc'.queue[j].n = calc.queue[j].n
                       /\ calc'.queue[j].session_id = session_id
                  ELSE calc'.queue[j] = calc.queue[j]
            /\ calc'.reviewed_items = Append(calc.reviewed_items, calc.queue[k].n)

ReviewedOnce ==
    /\ \A j \in 1..Len(calc.reviewed_items) : \A k \in 1..Len(calc.reviewed_items) :
          calc.reviewed_items[j] = calc.reviewed_items[k] => j = k
    /\ \A k \in 1..Len(calc.queue) :
          calc.queue[k].reviewed => InList(calc.queue[k].n, calc.reviewed_items)
    /\ get_stats.reviewed <= get_stats.reviewed_items_stored

\* C38: a call of mark_reviewed marks the oldest unreviewed queue item of the
\* session, appends it to reviewed_items and returns True, or returns False
\* and changes nothing when there is none; no item is in reviewed_items
\* twice, every reviewed queue item is in reviewed_items, and the call leaves
\* the queue length as it was.
C38_MarkReviewedOldestPending ==
    /\ [][calc'.last.op = "mark_reviewed" => MarkedAsClaimed]_vars
    /\ [](calc.fn = "ReviewQueueService" => ReviewedOnce)

\* The older of two items of one session is reviewed, the newer one pending.
C38_Witness ==
    /\ calc.fn = "ReviewQueueService"
    /\ calc.last.op = "mark_reviewed"
    /\ calc.last.result
    /\ Len(calc.queue) = 2
    /\ calc.queue[1].session_id = calc.queue[2].session_id
    /\ calc.queue[1].reviewed
    /\ ~calc.queue[2].reviewed
    /\ Len(calc.reviewed_items) = 2

\* ----------------------------------------------------------- authentication
\* APIKeyMiddleware.dispatch(request, call_next): the request's path and its
\* x-api-key header ("None" when the header is absent).
RequestPaths ==
    {"/", "/health", "/docs", "/redoc", "/openapi.json", "/health/",
     "/honeypot", "/api/v1/honeypot", "/api/v1/session"}

\* settings.api_key
ConfiguredKeys == {"your-secret-api-key", "rotated-key"}

HeaderKeys == {"None", "", "wrong-key"} \cup ConfiguredKeys

PUBLIC_PATHS == {"/", "/health", "/docs", "/redoc", "/openapi.json"}

JSONResponse(status_code, detail) ==
    [status_code |-> status_code, detail |-> detail, passed |-> FALSE]

\* return await call_next(request)
call_next == [status_code |-> 200, detail |-> "", passed |-> TRUE]

dispatch(path, api_key, settings_api_key) ==
    IF path \in PUBLIC_PATHS THEN call_next
    ELSE IF api_key = "None"
    THEN JSONResponse(401, "Missing API key. Please provide 'x-api-key' header.")
    ELSE IF api_key # settings_api_key
    THEN JSONResponse(401, "Invalid API key.")
    ELSE call_next

InitAuth ==
    /\ store = <<>>
    /\ held = {}
    /\ error = ""
    /\ req = [r \in Requests |-> IdleReq]
    /\ posts = <<>>
    /\ verdict = NoVerdict
    /\ thr = [t \in Threads |-> IdleThread]
    /\ \E path \in RequestPaths : \E key \in HeaderKeys :
       \E configured \in ConfiguredKeys :
          calc = [fn |-> "request", path |-> path, api_key |-> key,
                  settings_api_key |-> configured]

Dispatch ==
    /\ calc.fn = "request"
    /\ calc' = [calc EXCEPT !.fn = "dispatch"] @@
               [response |-> dispatch(calc.path, calc.api_key,
                                      calc.settings_api_key)]
    /\ UNCHANGED <<store, held, error, req, posts, verdict, thr>>

NextAuth == Dispatch

SpecAuth == InitAuth /\ [][NextAuth]_vars

\* C34: a request to any path but the health check with a missing or wrong
\* x-api-key is answered 401 and is not passed to the route handler, and a
\* request with the correct key is passed on.
C34_KeyRequiredExceptHealth ==
    calc.fn = "dispatch" =>
        /\ (calc.path # "/health" /\ calc.api_key # calc.settings_api_key) =>
              /\ calc.response.status_code = 401
              /\ ~calc.response.passed
        /\ calc.api_key = calc.settings_api_key => calc.response.passed


\* C35: analyze_session on a session without any "scammer" message (no
\* message at all, or only "user" messages) returns score 0.0, suspected
\* false, confirmed false and no keywords; the division by the message count
\* does not fail.
C35_NoScammerMessageIsZero ==
    (verdict.done /\ ScammerMessages(verdict.messages) = {}) =>
        /\ verdict.score = 0
        /\ ~verdict.suspected
        /\ ~verdict.confirmed
        /\ verdict.keywords = {}

\* A session holding only a high-scoring "user" message was analysed.
C35_Witness ==
    /\ verdict.done
    /\ Len(verdict.messages) > 0
    /\ \A k \in 1..Len(verdict.messages) : verdict.messages[k].sender = "user"
    /\ verdict.score = 0


\* The request r is inside send_callback in this step.
InSendCallback(r) ==
    /\ req[r].pc \in {"send", "awaiting"}
    /\ req'[r] # req[r]

\* C36: send_callback returns (True, None) only when the endpoint answered
\* 200 and (False, a non-empty message) after an early return, another
\* status, a timeout, a request error or any other exception; it raises
\* nothing and leaves callbackSent and every other field of the session as
\* they were.
C36_SendCallbackTotal ==
    /\ [](\A r \in Requests :
            req[r].pc = "returned" =>
                /\ req[r].ok <=> req[r].resp = "200"
                /\ req[r].ok => req[r].msg = ""
                /\ ~req[r].ok => req[r].msg # "")
    /\ [][\A r \in Requests :
            InSendCallback(r) => (store' = store /\ error' = error)]_vars

\* The POST ended in an exception: the call returned False with a message
\* and the session is still unmarked.
C36_Witness ==
    \E r \in Requests :
        /\ req[r].pc = "returned"
        /\ req[r].resp = "exception"
        /\ ~req[r].ok
        /\ req[r].msg # ""
        /\ ~store[req[r].sid].callbackSent

\* C37: a payload posted by send_callback has scamDetected true, the
\* session's sessionId and totalMessages as they are when it is sent, and as
\* agentNotes the supplied notes when they are non-empty, else the session's
\* stored agentNotes.
C37_PostedPayload ==
    [][Len(posts') > Len(posts) =>
          LET payload == posts'[Len(posts')]
          IN \E r \in Requests :
                /\ req[r].pc = "send"
                /\ req'[r].pc = "awaiting"
                /\ payload.scamDetected = TRUE
                /\ payload.sessionId = store[req[r].sid].sessionId
                /\ payload.totalMessagesExchanged = store[req[r].sid].totalMessages
                /\ payload.agentNotes =
                      (IF req[r].notes # "" THEN req[r].notes
                       ELSE store[req[r].sid].agentNotes)]_vars

\* A payload sent without notes carries the notes stored in the session.
C37_Witness ==
    /\ Len(posts) > 0
    /\ posts[1].agentNotes = "stored notes"
    /\ posts[1].scamDetected
    /\ \E r \in Requests : req[r].pc = "awaiting" /\ req[r].notes = ""

\* ---------------------------------------------------------- decision logger
\* FeedbackLoopService: decision_log in memory, the files _flush_decisions
\* wrote (by the clock second in their name), and the clock.  A record is
\* shown by its ordinal.
MaxLogged == 6
MaxClock == 3

\* len(self.decision_log) >= 100, scaled to the model's number of records
FlushThreshold == 2

\* open(filepath, 'w') and the writes: done; open failed; a write failed after
\* the file was opened (and truncated)
FlushOutcomes == {"written", "open_failed", "write_failed"}

\* The files after _flush_decisions ran with decision_log at clock second now.
Flushed(files, decision_log, now, outcome) ==
    CASE outcome = "written" -> [f \in DOMAIN files \cup {now} |->
                                    IF f = now THEN decision_log ELSE files[f]]
      [] outcome = "write_failed" -> [f \in DOMAIN files \cup {now} |->
                                    IF f = now THEN <<>> ELSE files[f]]
      [] OTHER -> files

\* decision_log after _flush_decisions: emptied only past the last write.
Remaining(decision_log, outcome) ==
    IF outcome = "written" THEN <<>> ELSE decision_log

InitFeedback ==
    /\ store = <<>>
    /\ held = {}
    /\ error = ""
    /\ req = [r \in Requests |-> IdleReq]
    /\ posts = <<>>
    /\ verdict = NoVerdict
    /\ thr = [t \in Threads |-> IdleThread]
    /\ calc = [fn |-> "FeedbackLoopService", decision_log |-> <<>>,
               files |-> <<>>, clock |-> 1, logged |-> 0, flush |-> "none"]

\* log_decision: append the record, and flush when the log reached the
\* threshold.
LogDecision(outcome) ==
    /\ calc.fn = "FeedbackLoopService"
    /\ calc.logged < MaxLogged
    /\ LET decision_log == Append(calc.decision_log, calc.logged + 1)
       IN IF Len(decision_log) >= FlushThreshold
          THEN calc' = [calc EXCEPT
                          !.logged = calc.logged + 1,
                          !.files = Flushed(calc.files, decision_log,
                                            calc.clock, outcome),
                          !.decision_log = Remaining(decision_log, outcome),
                          !.flush = outcome]
          ELSE /\ outcome = "written"
               /\ calc' = [calc EXCEPT !.logged = calc.logged + 1,
                                       !.decision_log = decision_log,
                                       !.flush = "none"]
    /\ UNCHANGED <<store, held, error, req, posts, verdict, thr>>

\* datetime.utcnow() moves on to the next second.
Tick ==
    /\ calc.fn = "FeedbackLoopService"
    /\ calc.clock < MaxClock
    /\ calc' = [calc EXCEPT !.clock = calc.clock + 1, !.flush = "none"]
    /\ UNCHANGED <<store, held, error, req, posts, verdict, thr>>

NextFeedback ==
    \/ \E outcome \in FlushOutcomes : LogDecision(outcome)
    \/ Tick

SpecFeedback == InitFeedback /\ [][NextFeedback]_vars

Kept(n) ==
    \/ InList(n, calc.decision_log)
    \/ \E f \in DOMAIN calc.files : InList(n, calc.files[f])

\* C39: every record passed to log_decision is in decision_log or in a file
\* written by _flush_decisions; a failed flush leaves decision_log as it
\* was, a successful one empties it, and no flush changes a file an earlier
\* flush wrote.
C39_NoDecisionLost ==
    /\ [](calc.fn = "FeedbackLoopService" =>
            /\ \A n \in 1..calc.logged : Kept(n)
            /\ calc.flush = "written" => calc.decision_log = <<>>
            /\ calc.flush \in {"open_failed", "write_failed"} =>
                  Len(calc.decision_log) >= FlushThreshold)
    /\ [][\A f \in DOMAIN calc.files :
            f \in DOMAIN calc'.files /\ calc'.files[f] = calc.files[f]]_vars

====
